---- MODULE Spec2Model ----
(***************************************************************************)
(* Fragment compilation pipeline of reportcompiler: the hash/context cache *)
(* kept by SourceParser.setup_and_generate_context, the per-document       *)
(* fragment traversal of DocumentCompiler._generate_doc and the batch      *)
(* loop of DocumentCompiler.generate.                                      *)
(*                                                                         *)
(* Idealisations: hashlib.sha256 is collision free (a digest is modelled   *)
(* by the byte string it was computed from); a text file is modelled by    *)
(* the value that was written to it, the empty file by EmptyFile.          *)
(***************************************************************************)
EXTENDS Integers, Sequences, FiniteSets, TLC

VARIABLES
    hashFile,   \* hash/<suffix>_<fragment>.hash : fingerprint record or NoFile
    ctxFile,    \* hash/<suffix>_<fragment>.ctx  : serialized context, EmptyFile or NoFile
    tmpFile,    \* tmp/<suffix>_<fragment>.json  : snapshot of (doc_param, data, metadata)
    run,        \* the last call of setup_and_generate_context: its inputs and what it did
    runs,       \* number of calls of setup_and_generate_context so far
    n_frag_workers, \* _generate_doc: size of the fragment worker pool
    docPc,      \* _generate_doc: where the document run is
    nextNode,   \* sequential mode: position of the loop over PreOrderIter
    task,       \* worker-pool mode: state of each submitted future
    fragmentOutcome, \* what compiling each node did (result or exception)
    compiles,   \* how many times each node was compiled
    results,    \* the list of fragment_info tuples
    docError,   \* the exception _generate_doc raised, if any
    renderStarted,  \* render_template was called
    finished,       \* worker-pool mode: the nodes in the order they ended
    fragments_context, \* _build_fragments_context: the merged contexts
    doc_metadata,   \* what fragments have written into the caller's metadata
    seenMetadata,   \* what each compilation found in its metadata at its start
    debug_mode,     \* generate: the debug_mode argument
    n_doc_workers,  \* generate: size of the document pool actually used
    metadataDebug,  \* doc_metadata['debug'] is set and true
    metaDirExists,  \* the directory <docspec_path>/../_meta exists
    batchPc,        \* generate: where the batch is
    nextDoc,        \* sequential mode: position in doc_params
    docTask,        \* pool mode: state of each submitted document
    docException,   \* what _generate_doc raised for each document
    docAttempts,    \* how many times _generate_doc ran for each document
    batchResults,   \* the list of doc_info tuples
    batchError,     \* the exception generate raised, if any
    recordUsers,    \* the documents that read or wrote each cache record
    batch_metadata, \* what documents have written into the caller's metadata
    docSeen,        \* what each document found in its metadata at its start
    templates,      \* the templates directory: what each template includes
    libraryPathSet, \* RC_TEMPLATE_LIBRARY_PATH is set in the environment
    librarySep,     \* ... and its value ends with a path separator
    treeNodes,      \* generate_template_tree: the nodes created so far
    stack,          \* generate_template_tree: the nodes still to expand
    treePc,         \* generate_template_tree: where the construction is
    treeError,      \* the exception generate_template_tree raised, if any
    fetchers_info,  \* fetch_info: the fetchers the fragment declares
    fetchPos,       \* fetch_info: position of the loop over the fetchers
    fetchedData,    \* fetch_info: the ids stored in data, in order
    fetchPc,        \* where the fragment is: fetching, fetched, ...
    fetchError,     \* the exception the data fetching stage raised, if any
    stagePc,        \* compile: the stage the fragment is about to run
    stageTrace,     \* compile: the stages run so far, in order
    stageIn,        \* compile: the inputs the stages have received so far
    stageCheck,     \* compile: the result of the cache check
    stageWrites,    \* compile: the cache files written by this compilation
    stageError,     \* compile: the exception that ended the compilation
    stageResult,    \* _generate_fragment: the context compile returned
    srcFiles,       \* the files of the specification's src directory
    mapPos,         \* generate_fragments_mapping: position of its loop
    src_mapping,    \* generate_fragments_mapping: the mapping built so far
    ctorPc,         \* __init__: mapping, constructed, failed, generating
    ctorError,      \* __init__: the exception that ended it, if any
    genArgs,        \* generate: the arguments it was called with
    genWorkers,     \* generate: its locals n_doc_workers and n_frag_workers
    genPc,          \* generate: called, running, ended or raised
    genDoc,         \* generate: per document, pending, running or done
    genFrag,        \* generate: per document and node, the same
    genPools,       \* generate: the executors created so far
    failIn,         \* a failing strategy: the call it fails in
    failPc,         \* a failing strategy: called, caught, raised, returned
    failError,      \* a failing strategy: what reaches the orchestrator
    errorFiles,     \* the error_* snapshots in the _meta directory
    infoTree,       \* template_context_info: the tree of the document
    infoPc,         \* template_context_info: merging, merged or built
    mergedAt,       \* per node, the key path the merge put its context at
    template_context_info, \* the list _build_full_context puts in meta
    metaDoc,        \* compile: the doc_metadata it is called with
    metaFrag,       \* compile: the metadata the fragment declares
    metaNow,        \* compile: its dictionary "metadata" as it stands
    metaPc,         \* compile: the statement it has reached
    metaSeen,       \* per stage, the metadata the stage received
    specArgs,       \* DocumentSpecification(...): its arguments
    disk,           \* what exists on disk
    specPc,         \* DocumentSpecification.__init__: where it is
    specError,      \* the exception that ended it, if any
    diskOps,        \* the accesses to the disk it has made
    fetcher_info,   \* SQLQueryBuilder: the fetcher specification
    sqlPc,          \* SQLQueryBuilder.build: where it is
    sqlError,       \* the exception that ended it, if any
    sqlQuery,       \* the clauses built so far
    orderIn,        \* two fetcher specifications that differ in order only
    orderPc,        \* which of the two queries have been built
    orderOut,       \* the field list and ORDER BY list of each query
    declStage,      \* fetch_info: the stage that calls it
    declMeta,       \* fetch_info: the metadata it is given
    declPc,         \* fetch_info: where it is
    declError,      \* the exception that ended it, if any
    declList,       \* the declarations left to fetch
    declData,       \* the number of entries of the mapping returned
    declInvoked,    \* the number of fetchers invoked
    handMode,       \* fragments of a document: "sequential" or "pool"
    handIn,         \* per compilation: fragment name and fetched data
    handPc,         \* per compilation: where it is
    handFile,       \* tmp/<suffix>_<name>.json, per fragment name
    handMeta,       \* per compilation: metadata['cache_file']
    dupInput,       \* the document parameter list as given
    dupList,        \* the list, changed in place
    dupPos,         \* the position of the list iterator, from 1
    dupPc,          \* _check_and_clean_duplicate_variables: where it is
    equivOutcome,   \* what the compilation of each node does, in both runs
    equivDone,      \* the runs that have ended: "sequential", "pool"
    equivRun,       \* per run: merged context, metadata seen, error
    mergeIn,        \* the context each fragment returned
    mergePos,       \* _build_fragments_context: the next result
    mergeCtx,       \* fragments_context, from key paths to kinds of value
    mergeError      \* the exception that ended the merge, if any

cacheVars == <<hashFile, ctxFile, tmpFile, run, runs>>
docVars == <<n_frag_workers, docPc, nextNode, task, fragmentOutcome, compiles,
             results, docError, renderStarted, finished, fragments_context,
             doc_metadata, seenMetadata>>

-----------------------------------------------------------------------------
(* Bounds of the input space *)

\* number of compilations of the fragment that are followed
MaxRuns == 3
\* largest n_frag_workers considered (1 is the sequential mode)
MaxFragWorkers == 2
\* largest n_doc_workers considered (1 is the sequential mode)
MaxDocWorkers == 2
\* largest number of nodes generate_template_tree is followed to
MaxTreeNodes == 7
\* largest number of data fetchers a fragment declares
MaxFetchers == 3
\* number of calls of _generate_fragment followed stage by stage
MaxCompiles == 2

\* versions of the fragment's source file (its bytes)
SourceVersions == {"v1", "v2"}
\* values of the document configuration outside the keys modelled one by one
Configs == {"cfg1", "cfg2"}

\* A file that does not exist, a file opened for writing and left empty, and a
\* file holding the text that was written to it.
NoFile == [state |-> "absent", text |-> <<>>]
EmptyFile == [state |-> "empty", text |-> <<>>]
File(text) == [state |-> "written", text |-> text]

\* Python's None in the variable "context"
NoContext == [origin |-> <<>>, shape |-> "none"]

-----------------------------------------------------------------------------
(* Document parameters and the document suffix *)

\* A document parameter is an ordered mapping: a sequence of <<key, value>>
\* pairs; a value is a string, given as the sequence of its pieces.
DocParams ==
    { << <<"country", <<"ESP">> >> >>,
      << <<"iso", <<"ESP">> >> >> }

RECURSIVE JoinValues(_)
\* '-'.join([str(v) for v in doc_param.values()])
JoinValues(vals) ==
    IF vals = <<>> THEN <<>>
    ELSE IF Len(vals) = 1 THEN vals[1]
    ELSE vals[1] \o <<"-">> \o JoinValues(Tail(vals))

\* suffix.replace(': ', '=')
ReplaceColon(s) == [i \in DOMAIN s |-> IF s[i] = ": " THEN "=" ELSE s[i]]

get_doc_param_suffix(doc_param) ==
    ReplaceColon(JoinValues([i \in DOMAIN doc_param |-> doc_param[i][2]]))

\* json.dumps(doc_param, sort_keys=True): the keys in sorted order, so the
\* text is determined by the key -> value mapping and not by insertion order.
DocParamJson(doc_param) ==
    [k \in {doc_param[i][1] : i \in DOMAIN doc_param} |->
        doc_param[CHOOSE i \in DOMAIN doc_param : doc_param[i][1] = k][2]]

-----------------------------------------------------------------------------
(* Fetched data and contexts, and their JSON forms *)

\* A fetched pandas.DataFrame: "records" is what to_json(orient='records')
\* prints of it (the cells at the default double_precision of 10 decimals);
\* "beyond" is what that text does not show: the digits of a float cell past
\* the tenth decimal.
DataFrames ==
    { [records |-> "r1", beyond |-> "x"],
      [records |-> "r1", beyond |-> "y"],
      [records |-> "r2", beyond |-> "x"] }

\* The data handed to a fragment: one frame per fetcher, keyed by position.
FetchedData == {<<df>> : df \in DataFrames}

\* DataFrame.to_json(orient='records')
DataFrameToJson(df) == df.records

\* convert_to_json(data) for the OrderedDict of frames: the frames' texts in
\* insertion order.
DataJson(data) == [i \in DOMAIN data |-> DataFrameToJson(data[i])]

\* What a context-generation strategy can return: a mapping of JSON-native
\* values ("plain"), a mapping holding a value that JSON prints as another
\* type such as a tuple or a DataFrame ("tuple"), or a mapping holding a value
\* json.dumps refuses ("unserializable").
ContextShapes == {"plain", "tuple", "unserializable"}

\* A strategy either raises or returns a context of one of the shapes.
StrategyOutcomes == {"raises"} \cup ContextShapes

\* The context a strategy computes from its inputs.
Context(origin, shape) == [origin |-> origin, shape |-> shape]

\* convert_to_json(context) succeeds unless json.dumps raises TypeError.
Serializable(context) == context.shape # "unserializable"

\* convert_to_json(context): tuples are printed as arrays, frames as record
\* lists, so the text keeps the content and not the shape.
convert_to_json(context) == <<context.origin>>

\* json.load accepts a file that holds a complete JSON text.
Parseable(file) == file.state = "written"

\* json.load(f): every array is read back as a list.
JsonLoad(file) == [origin |-> file.text[1], shape |-> "plain"]

-----------------------------------------------------------------------------
(* The fingerprint and the cache check of setup_and_generate_context *)

\* hashlib.sha256(bytes).hexdigest(), collision free
Sha256(bytes) == <<"sha256", bytes>>

\* json.dumps(metadata, sort_keys=True) of a string-keyed mapping of JSON
\* values: the text determines the mapping and the mapping the text.
MetadataJson(metadata) == metadata

\* The metadata a fragment is compiled with: setup_environment derives
\* doc_suffix from the document parameter, compile sets fragment_name, and
\* the rest is the document configuration.
EffectiveMetadata(doc_param, config, skip) ==
    [doc_suffix |-> get_doc_param_suffix(doc_param),
     fragment_name |-> "fragment",
     skip_unchanged_fragments |-> skip,
     config |-> config]

\* doc_suffix + '_' + fragment_name, the base name of the three files
FragmentKey(metadata) == <<metadata.doc_suffix, metadata.fragment_name>>

FragmentKeys ==
    {FragmentKey(EffectiveMetadata(p, "cfg1", TRUE)) : p \in DocParams}

hash_component_names ==
    <<"code_hash", "docparam_hash", "data_hash", "metadata_hash">>

\* hash_components, joined by newlines into current_hash
CurrentHash(code, doc_param, data, metadata) ==
    << Sha256(code),
       Sha256(DocParamJson(doc_param)),
       Sha256(DataJson(data)),
       Sha256(MetadataJson(metadata)) >>

\* previous_hash: the text of the .hash file, '' when there is none
PreviousHash(file) == IF file.state = "written" THEN file.text ELSE <<>>

\* The names of the components whose hashes differ (the list comprehension
\* over range(len(hash_list)))
HashDifferences(current_hash, previous_hash) ==
    {hash_component_names[i] : i \in
        {j \in DOMAIN current_hash : current_hash[j] # previous_hash[j]}}

CheckResult(context, error, log, differ) ==
    [context |-> context, error |-> error, log |-> log, differ |-> differ]

\* Lines 68-124: the comparison of the stored record with the current
\* fingerprint.  context is the reloaded context or NoContext; error is the
\* exception that leaves the function, "none" if there is none.
CacheCheck(current_hash, hash_file, ctx_file) ==
    LET previous_hash == PreviousHash(hash_file)
        ctx_exists == ctx_file.state # "absent"
    IN  IF current_hash = previous_hash /\ ctx_exists
        THEN IF Parseable(ctx_file)
             THEN CheckResult(JsonLoad(ctx_file), "none", "reuse", {})
             ELSE CheckResult(NoContext, "JSONDecodeError", "none", {})
        ELSE IF previous_hash = <<>>
        THEN CheckResult(NoContext, "none", "no_previous_context", {})
        ELSE IF Len(previous_hash) < Len(current_hash)
        THEN CheckResult(NoContext, "IndexError", "none", {})
        ELSE IF HashDifferences(current_hash, previous_hash) # {}
        THEN CheckResult(NoContext, "none", "differ",
                         HashDifferences(current_hash, previous_hash))
        ELSE IF ~ctx_exists
        THEN CheckResult(NoContext, "none", "output_not_available", {})
        ELSE CheckResult(NoContext, "ContextGenerationError", "unexpected", {})

\* With skip_unchanged_fragments off nothing is compared (line 56).
NoCheck == CheckResult(NoContext, "none", "none", {})

-----------------------------------------------------------------------------
(* SourceParser.setup_and_generate_context *)

\* What one call did.  outcome: "hit" (stored context returned),
\* "generated" (strategy ran, records written), "strategy_failed"
\* (generate_context raised), "ctx_write_failed" (convert_to_json raised
\* while the .ctx file was open), "check_failed" (the cache check raised).
RunRecord(inputs, check, outcome, invoked, context, error) ==
    [code |-> inputs[1], doc_param |-> inputs[2], data |-> inputs[3],
     metadata |-> inputs[4], log |-> check.log, differ |-> check.differ,
     outcome |-> outcome, invoked |-> invoked, context |-> context,
     error |-> error]

NoRun ==
    [code |-> "", doc_param |-> <<>>, data |-> <<>>,
     metadata |-> EffectiveMetadata(<<>>, "", FALSE),
     log |-> "none", differ |-> {}, outcome |-> "none", invoked |-> FALSE,
     context |-> NoContext, error |-> "none"]

\* strategy is what self.generate_context does in this call: it raises, or
\* it returns a context of the given shape.
setup_and_generate_context(code, doc_param, data, metadata, strategy) ==
    LET key == FragmentKey(metadata)
        skip == metadata.skip_unchanged_fragments
        current_hash == CurrentHash(code, doc_param, data, metadata)
        check == IF skip
                 THEN CacheCheck(current_hash, hashFile[key], ctxFile[key])
                 ELSE NoCheck
        generated == Context(<<code, doc_param, data, metadata>>, strategy)
        Done(outcome, invoked, context, error) ==
            RunRecord(<<code, doc_param, data, metadata>>, check, outcome,
                      invoked, context, error)
    IN  IF check.error # "none"
        THEN \* json.load, the comparison or raise_generator_exception raised
             /\ run' = Done("check_failed", FALSE, NoContext, check.error)
             /\ UNCHANGED <<hashFile, ctxFile, tmpFile>>
        ELSE /\ tmpFile' = [tmpFile EXCEPT ![key] =
                                File(<<doc_param, DataJson(data), metadata>>)]
             /\ IF check.context # NoContext
                THEN \* lines 138-147: reuse, and write the .ctx file again
                     /\ ctxFile' = [ctxFile EXCEPT ![key] =
                                        File(convert_to_json(check.context))]
                     /\ run' = Done("hit", FALSE, check.context, "none")
                     /\ UNCHANGED hashFile
                ELSE IF strategy = "raises"
                THEN \* line 133 raises: nothing after it runs
                     /\ run' = Done("strategy_failed", TRUE, NoContext,
                                    "ContextGenerationError")
                     /\ UNCHANGED <<hashFile, ctxFile>>
                ELSE \* lines 133-147
                     /\ hashFile' = IF skip
                                    THEN [hashFile EXCEPT ![key] =
                                            File(current_hash)]
                                    ELSE hashFile
                     /\ IF Serializable(generated)
                        THEN /\ ctxFile' = [ctxFile EXCEPT ![key] =
                                        File(convert_to_json(generated))]
                             /\ run' = Done("generated", TRUE, generated,
                                            "none")
                        ELSE \* open(.., 'w') has emptied the file when
                             \* convert_to_json raises
                             /\ ctxFile' = [ctxFile EXCEPT ![key] = EmptyFile]
                             /\ run' = Done("ctx_write_failed", TRUE,
                                            NoContext, "TypeError")

\* One compilation of the fragment, with any inputs and any behaviour of
\* the strategy.
CompileFragment ==
    /\ runs < MaxRuns
    /\ runs' = runs + 1
    /\ \E code \in SourceVersions, doc_param \in DocParams,
          data \in FetchedData, config \in Configs, skip \in BOOLEAN,
          strategy \in StrategyOutcomes :
            setup_and_generate_context(
                code, doc_param, data,
                EffectiveMetadata(doc_param, config, skip), strategy)

CacheNext == CompileFragment

-----------------------------------------------------------------------------
(* DocumentCompiler._generate_doc: one document run over the template tree *)

\* The template tree in the order of PreOrderIter: each node with its
\* template name (base name and extension) and the position of its parent,
\* 0 for the root.  "table.tex" is included once by the chapter and twice
\* by the main template and gives three nodes.
TemplateTree ==
    << [name |-> <<"main", ".tex">>, parent |-> 0],
       [name |-> <<"chapter", ".tex">>, parent |-> 1],
       [name |-> <<"table", ".tex">>, parent |-> 2],
       [name |-> <<"table", ".tex">>, parent |-> 1],
       [name |-> <<"table", ".tex">>, parent |-> 1],
       [name |-> <<"notes", ".tex">>, parent |-> 1] >>

Nodes == DOMAIN TemplateTree

\* source_file_map: the templates that have a source file
source_file_map ==
    {<<"main", ".tex">>, <<"chapter", ".tex">>, <<"table", ".tex">>}

\* os.path.splitext(name)[0]
Splitext(name) == name[1]

NoException == [type |-> "none", args |-> <<>>]
NoOutcome == [result |-> 0, exception |-> [type |-> "pending", args |-> <<>>]]

\* What _generate_fragment can do for a node: return the node's context, or
\* raise the exception of a failed stage, whose args hold a message or are
\* empty.  A node without a source file returns the empty context.
FragmentOutcomes(node) ==
    IF TemplateTree[node].name \in source_file_map
    THEN { [result |-> node, exception |-> NoException],
           [result |-> 0, exception |-> [type |-> "Exception", args |-> <<node>>]],
           [result |-> 0, exception |-> [type |-> "Exception", args |-> <<>>]] }
    ELSE { [result |-> node, exception |-> NoException] }

\* FragmentCompiler.compile, lines 804-806: the fragment name is the base
\* name of the source file, which generate_fragments_mapping found under
\* the template's base name; with the document's suffix it names the
\* node's .hash, .ctx and tmp snapshot.
NodeFragmentName(node) == Splitext(TemplateTree[node].name)

NodeCacheKey(node) ==
    FragmentKey([doc_suffix |-> <<"ESP">>,
                 fragment_name |-> NodeFragmentName(node)])

fragment_info(fragment, o) ==
    [fragment |-> fragment, result |-> o.result, exception |-> o.exception]

\* The key of a result: the Node object in sequential mode (line 584), the
\* template name without extension in worker-pool mode (line 540).
NodeKey(node) == [node |-> node, base |-> ""]
NameKey(node) == [node |-> 0, base |-> Splitext(TemplateTree[node].name)]

\* The sequential loop that gives up at the first failed fragment.
AfterFragmentAborting(node, exception) ==
    IF exception = NoException THEN node + 1 ELSE Len(TemplateTree) + 1

\* The sequential loop that leaves out every other node of the tree.
AfterFragmentSkipping(node, exception) == node + 2

\* lines 582-587: the exception is caught and the loop goes on
AfterFragment(node, exception) == node + 1

\* line 476: the results that carry an exception
Errors(res) == {i \in DOMAIN res : res[i].exception # NoException}

NoError == [type |-> "none", fragment_errors |-> <<>>]

\* _raise_doc_generation_errors: one entry per key of a failed result, the
\* last result of a key winning; exception.args[0] raises IndexError when
\* the args are empty.
raise_doc_generation_errors(res) ==
    LET failed == Errors(res)
        keys == {res[i].fragment : i \in failed}
        Last(k) == CHOOSE i \in failed :
                      /\ res[i].fragment = k
                      /\ \A j \in failed : res[j].fragment = k => j <= i
    IN  IF \E i \in failed : res[i].exception.args = <<>>
        THEN [type |-> "IndexError", fragment_errors |-> <<>>]
        ELSE [type |-> "DocumentGenerationError",
              fragment_errors |->
                  [k \in keys |-> res[Last(k)].exception.args[1]]]

\* What the strategy of a node returns when it succeeds: a mapping with one
\* key every fragment supplies and one key of the node's own; the strategy
\* of the third node returns a value that is no mapping.  The keys are
\* no template names.
OwnKey == <<"k1", "k2", "k3", "k4", "k5", "k6">>

StrategyReturn(node) ==
    IF node = 3
    THEN [isdict |-> FALSE, mapping |-> <<>>, value |-> <<node>>]
    ELSE [isdict |-> TRUE,
          mapping |-> [k \in {"value", OwnKey[node]} |-> <<node>>],
          value |-> <<>>]

\* _generate_fragment, lines 414-425: the context of a node (empty without
\* a source file, wrapped under 'data' when it is no mapping) ...
ResultContext(node) ==
    IF TemplateTree[node].name \notin source_file_map THEN <<>>
    ELSE IF StrategyReturn(node).isdict THEN StrategyReturn(node).mapping
    ELSE [k \in {"data"} |-> StrategyReturn(node).value]

\* ... and line 413: the names on the path from the root to the node
RECURSIVE ResultPath(_)
ResultPath(node) ==
    IF TemplateTree[node].parent = 0 THEN <<TemplateTree[node].name>>
    ELSE Append(ResultPath(TemplateTree[node].parent), TemplateTree[node].name)

\* The key path that stops at the parent of the node.
fragment_items_of_parent(fragment) ==
    [i \in 1..(IF Len(fragment) > 1 THEN Len(fragment) - 2 ELSE 0) |->
        Splitext(fragment[i + 1])]

\* update_nested_dict, lines 708-714: the components of the path, the first
\* one left out, without their extensions
fragment_items(fragment) ==
    [i \in 1..(Len(fragment) - 1) |-> Splitext(fragment[i + 1])]

\* A nested dictionary is held as a function from the key paths of its
\* entries: a nested mapping has the value <<>>, any other entry <<v>>.
\* lines 716-720: the mappings along the path are created where missing
MappingsAlong(items) == {SubSeq(items, 1, i) : i \in 1..Len(items)}

\* The update that puts the new mapping in the place of the one at the path.
KeptEntriesReplaced(doc_context, items) ==
    {p \in DOMAIN doc_context :
        ~(Len(p) = Len(items) + 1 /\ SubSeq(p, 1, Len(items)) = items)}

\* line 721, dict.update: the entries already at the path stay
KeptEntries(doc_context, items) == DOMAIN doc_context

update_nested_dict(doc_context, fragment, frag_context) ==
    LET items == fragment_items(fragment)
        new == {Append(items, k) : k \in DOMAIN frag_context}
        kept == KeptEntries(doc_context, items)
    IN  [p \in kept \cup MappingsAlong(items) \cup new |->
            IF p \in new THEN frag_context[p[Len(p)]]
            ELSE IF p \in kept THEN doc_context[p]
            ELSE <<>>]

\* lines 602-609: the results are merged in the order of the list
RECURSIVE build_fragments_context(_)
build_fragments_context(fragment_results) ==
    IF fragment_results = <<>> THEN <<>>
    ELSE LET n == Len(fragment_results)
             node == fragment_results[n].result
         IN  update_nested_dict(
                 build_fragments_context(SubSeq(fragment_results, 1, n - 1)),
                 ResultPath(node), ResultContext(node))

\* The futures read in the order they ended (as_completed).
FutureOrderAsCompleted(ended) == ended

\* lines 544-552: the futures are read in the order they were submitted,
\* whatever the order they ended in
FutureOrder(ended) == [i \in Nodes |-> i]

\* _generate_fragment, lines 414-420: the metadata a compilation starts with
\* is the caller's dictionary (in a pool: the pickled copy of it).
SeenBy(node) ==
    IF TemplateTree[node].name \in source_file_map THEN doc_metadata ELSE {}

\* FragmentCompiler.compile, lines 803-816: metadata is the dictionary it was
\* given, not a copy; the keys the fragment declares are merged into it, and
\* a strategy that fails (its exception carries a message) leaves
\* 'cache_file' behind (base.py 130, 149).  Only a fragment with a source
\* file is compiled.
WrittenBy(node, o) ==
    IF TemplateTree[node].name \notin source_file_map THEN {}
    ELSE IF o.exception = NoException
    THEN {[key |-> "declared", node |-> node]}
    ELSE IF o.exception.args # <<>>
    THEN {[key |-> "declared", node |-> node],
          [key |-> "cache_file", node |-> node]}
    ELSE {}

\* lines 573-588: one pass of the sequential loop
SequentialFragment ==
    /\ seenMetadata' = [seenMetadata EXCEPT ![nextNode] = SeenBy(nextNode)]
    /\ docPc = "fragments" /\ n_frag_workers = 1
    /\ \E o \in FragmentOutcomes(nextNode) :
          /\ fragmentOutcome' = [fragmentOutcome EXCEPT ![nextNode] = o]
          /\ results' = Append(results, fragment_info(NodeKey(nextNode), o))
          /\ doc_metadata' = doc_metadata \cup WrittenBy(nextNode, o)
          /\ nextNode' = AfterFragment(nextNode, o.exception)
          /\ docPc' = IF AfterFragment(nextNode, o.exception) \in Nodes
                      THEN "fragments" ELSE "collected"
    /\ compiles' = [compiles EXCEPT ![nextNode] = @ + 1]
    /\ UNCHANGED <<n_frag_workers, task, docError, renderStarted, finished,
                   fragments_context>>

\* lines 531-541: every node is submitted to the pool, in pre-order
SubmitFragments ==
    /\ UNCHANGED <<doc_metadata, seenMetadata>>
    /\ docPc = "fragments" /\ n_frag_workers > 1
    /\ task' = [n \in Nodes |-> "queued"]
    /\ docPc' = "pool"
    /\ UNCHANGED <<n_frag_workers, nextNode, fragmentOutcome, compiles, results,
                   docError, renderStarted, finished, fragments_context>>

\* A free worker takes the oldest queued call.
WorkerStart(node) ==
    /\ seenMetadata' = [seenMetadata EXCEPT ![node] = SeenBy(node)]
    /\ UNCHANGED doc_metadata
    /\ docPc = "pool" /\ task[node] = "queued"
    /\ \A n \in Nodes : n < node => task[n] # "queued"
    /\ Cardinality({n \in Nodes : task[n] = "running"}) < n_frag_workers
    /\ task' = [task EXCEPT ![node] = "running"]
    /\ UNCHANGED <<n_frag_workers, docPc, nextNode, fragmentOutcome, compiles,
                   results, docError, renderStarted, finished,
                   fragments_context>>

\* A worker ends its call of _generate_fragment.
WorkerFinish(node) ==
    /\ UNCHANGED <<doc_metadata, seenMetadata>>
    /\ docPc = "pool" /\ task[node] = "running"
    /\ \E o \in FragmentOutcomes(node) :
          fragmentOutcome' = [fragmentOutcome EXCEPT ![node] = o]
    /\ task' = [task EXCEPT ![node] = "done"]
    /\ compiles' = [compiles EXCEPT ![node] = @ + 1]
    /\ finished' = Append(finished, node)
    /\ UNCHANGED <<n_frag_workers, docPc, nextNode, results, docError,
                   renderStarted, fragments_context>>

\* lines 542-553: after shutdown(wait=True) the results are read in the
\* order of submission
CollectResults ==
    /\ UNCHANGED <<doc_metadata, seenMetadata>>
    /\ docPc = "pool"
    /\ \A n \in Nodes : task[n] = "done"
    /\ results' = [i \in Nodes |->
                      fragment_info(NameKey(FutureOrder(finished)[i]),
                                    fragmentOutcome[FutureOrder(finished)[i]])]
    /\ docPc' = "collected"
    /\ UNCHANGED <<n_frag_workers, nextNode, task, fragmentOutcome, compiles,
                   docError, renderStarted, finished, fragments_context>>

\* lines 476-478
RaiseDocErrors ==
    /\ UNCHANGED <<doc_metadata, seenMetadata>>
    /\ docPc = "collected"
    /\ Errors(results) # {}
    /\ docError' = raise_doc_generation_errors(results)
    /\ docPc' = "raised"
    /\ UNCHANGED <<n_frag_workers, nextNode, task, fragmentOutcome, compiles,
                   results, renderStarted, finished, fragments_context>>

\* lines 480-496: the contexts are merged, the template is rendered and the
\* document postprocessed; either stage may raise.
RenderDocument ==
    /\ UNCHANGED <<doc_metadata, seenMetadata>>
    /\ docPc = "collected"
    /\ Errors(results) = {}
    /\ fragments_context' = build_fragments_context(results)
    /\ renderStarted' = TRUE
    /\ \E e \in {"none", "TemplateRendererException", "PostProcessorError"} :
          /\ docError' = [type |-> e, fragment_errors |-> <<>>]
          /\ docPc' = IF e = "none" THEN "returned" ELSE "raised"
    /\ UNCHANGED <<n_frag_workers, nextNode, task, fragmentOutcome, compiles,
                   results, finished>>

-----------------------------------------------------------------------------
(* DocumentCompiler.generate: a batch of document parameters *)

\* doc_params: the batch, three documents with different parameters over
\* the same keys; a value may itself hold the "-" that joins the values.
BatchDocParams ==
    << << <<"region", <<"EU", "-", "W">> >>, <<"country", <<"ESP">> >> >>,
       << <<"region", <<"EU">> >>, <<"country", <<"FRA">> >> >>,
       << <<"region", <<"EU">> >>, <<"country", <<"W", "-", "ESP">> >> >> >>

Docs == DOMAIN BatchDocParams

\* setup_environment: doc_metadata['doc_suffix']
DocSuffix(doc) == get_doc_param_suffix(BatchDocParams[doc])

NoDocException == [type |-> "none", fragment_errors |-> <<>>]
PendingDoc == [type |-> "pending", fragment_errors |-> <<>>]

\* What _generate_doc can do: return the document, raise the
\* DocumentGenerationError of its failed fragments (keyed by the suffix), or
\* raise another exception (rendering, postprocessing, ...).
DocOutcomes(doc) ==
    { NoDocException,
      [type |-> "DocumentGenerationError",
       fragment_errors |-> [s \in {DocSuffix(doc)} |-> "fragments"]],
      [type |-> "Exception", fragment_errors |-> <<>>] }

\* The record of the document's fragment: gen/<suffix>/hash|tmp/<suffix>_<name>
DocRecord(doc) ==
    FragmentKey(EffectiveMetadata(BatchDocParams[doc], "cfg1", TRUE))

DocRecords == {DocRecord(d) : d \in Docs}

\* The record is read and written once the fragment reaches
\* setup_and_generate_context: always when the fragments succeeded, and when
\* the failure is the strategy's.
RecordUsersAfter(doc, exception, reached_strategy) ==
    IF exception.type # "DocumentGenerationError" \/ reached_strategy
    THEN [recordUsers EXCEPT ![DocRecord(doc)] = @ \cup {doc}]
    ELSE recordUsers

doc_info(doc, exception) == [doc |-> DocSuffix(doc), exception |-> exception]

\* SourceParser._build_debug_info, reached from raise_generator_exception
\* when a strategy fails and metadata['debug'] is true: creates _meta.
MetaDirAfter(exception, wrote_debug_info) ==
    \/ metaDirExists
    \/ /\ metadataDebug /\ wrote_debug_info
       /\ exception.type = "DocumentGenerationError"

\* lines 325-341: dict.update over the failed documents, in batch order
RECURSIVE traceback_dict(_)
traceback_dict(error_results) ==
    IF error_results = <<>> THEN <<>>
    ELSE LET n == Len(error_results)
             result == error_results[n]
             before == traceback_dict(SubSeq(error_results, 1, n - 1))
             update ==
                IF result.exception.type = "DocumentGenerationError"
                THEN result.exception.fragment_errors
                ELSE [s \in {result.doc} |-> "<global>"]
         IN  [s \in DOMAIN before \cup DOMAIN update |->
                 IF s \in DOMAIN update THEN update[s] ELSE before[s]]

ErrorResults(res) == SelectSeq(res, LAMBDA r : r.exception # NoDocException)

\* lines 276-292: the loop goes on after a failed document
AfterDocument(doc, exception) == doc + 1

\* What _generate_doc leaves in the metadata dictionary it was given: the
\* keys of its fragments when they are compiled in the same process
\* (FragmentCompiler.compile, lines 803-816), and template_context_info once
\* the full context is built (lines 590-600), which needs every fragment to
\* have succeeded.
DocWrites(doc, exception, fragments_in_process) ==
    (IF fragments_in_process
     THEN {[key |-> "fragment_metadata", doc |-> doc]} ELSE {})
    \cup (IF exception.type # "DocumentGenerationError"
          THEN {[key |-> "template_context_info", doc |-> doc]} ELSE {})

\* lines 276-292: one pass of the sequential loop
SequentialDocument ==
    /\ batchPc = "documents" /\ n_doc_workers = 1
    /\ docSeen' = [docSeen EXCEPT ![nextDoc] = batch_metadata]
    /\ \E e \in DocOutcomes(nextDoc), wrote_debug_info \in BOOLEAN,
          fragments_in_process \in BOOLEAN :
          /\ docException' = [docException EXCEPT ![nextDoc] = e]
          /\ batchResults' = Append(batchResults, doc_info(nextDoc, e))
          /\ metaDirExists' = MetaDirAfter(e, wrote_debug_info)
          /\ recordUsers' = RecordUsersAfter(nextDoc, e, wrote_debug_info)
          /\ batch_metadata' =
                batch_metadata \cup DocWrites(nextDoc, e, fragments_in_process)
          /\ nextDoc' = AfterDocument(nextDoc, e)
          /\ batchPc' = IF AfterDocument(nextDoc, e) \in Docs
                        THEN "documents" ELSE "collected"
    /\ docAttempts' = [docAttempts EXCEPT ![nextDoc] = @ + 1]
    /\ UNCHANGED <<debug_mode, n_doc_workers, metadataDebug, docTask,
                   batchError>>

\* lines 295-307: every document is submitted to the pool
SubmitDocuments ==
    /\ UNCHANGED <<batch_metadata, docSeen>>
    /\ UNCHANGED recordUsers
    /\ batchPc = "documents" /\ n_doc_workers > 1
    /\ docTask' = [d \in Docs |-> "queued"]
    /\ batchPc' = "pool"
    /\ UNCHANGED <<debug_mode, n_doc_workers, metadataDebug, metaDirExists,
                   nextDoc, docException, docAttempts, batchResults,
                   batchError>>

DocWorkerStart(doc) ==
    /\ docSeen' = [docSeen EXCEPT ![doc] = batch_metadata]
    /\ UNCHANGED batch_metadata
    /\ UNCHANGED recordUsers
    /\ batchPc = "pool" /\ docTask[doc] = "queued"
    /\ \A d \in Docs : d < doc => docTask[d] # "queued"
    /\ Cardinality({d \in Docs : docTask[d] = "running"}) < n_doc_workers
    /\ docTask' = [docTask EXCEPT ![doc] = "running"]
    /\ UNCHANGED <<debug_mode, n_doc_workers, metadataDebug, metaDirExists,
                   batchPc, nextDoc, docException, docAttempts, batchResults,
                   batchError>>

DocWorkerFinish(doc) ==
    /\ UNCHANGED <<batch_metadata, docSeen>>
    /\ batchPc = "pool" /\ docTask[doc] = "running"
    /\ \E e \in DocOutcomes(doc), wrote_debug_info \in BOOLEAN :
          /\ docException' = [docException EXCEPT ![doc] = e]
          /\ metaDirExists' = MetaDirAfter(e, wrote_debug_info)
          /\ recordUsers' = RecordUsersAfter(doc, e, wrote_debug_info)
    /\ docTask' = [docTask EXCEPT ![doc] = "done"]
    /\ docAttempts' = [docAttempts EXCEPT ![doc] = @ + 1]
    /\ UNCHANGED <<debug_mode, n_doc_workers, metadataDebug, batchPc,
                   nextDoc, batchResults, batchError>>

\* lines 308-317: the futures are read in the order of submission
CollectDocuments ==
    /\ UNCHANGED <<batch_metadata, docSeen>>
    /\ UNCHANGED recordUsers
    /\ batchPc = "pool"
    /\ \A d \in Docs : docTask[d] = "done"
    /\ batchResults' = [d \in Docs |-> doc_info(d, docException[d])]
    /\ batchPc' = "collected"
    /\ UNCHANGED <<debug_mode, n_doc_workers, metadataDebug, metaDirExists,
                   nextDoc, docTask, docException, docAttempts, batchError>>

\* lines 319-341: _prepare_debug_output opens _meta/last_debug_errors for
\* writing, which needs the directory; then the failures are gathered into
\* one DocumentGenerationError.
FinishBatch ==
    /\ UNCHANGED <<batch_metadata, docSeen>>
    /\ UNCHANGED recordUsers
    /\ batchPc = "collected"
    /\ batchPc' = "done"
    /\ batchError' =
          IF debug_mode /\ ~metaDirExists
          THEN [type |-> "FileNotFoundError", fragment_errors |-> <<>>]
          ELSE IF ErrorResults(batchResults) # <<>>
          THEN [type |-> "DocumentGenerationError",
                fragment_errors |->
                    traceback_dict(ErrorResults(batchResults))]
          ELSE NoDocException
    /\ UNCHANGED <<debug_mode, n_doc_workers, metadataDebug, metaDirExists,
                   nextDoc, docTask, docException, docAttempts, batchResults>>

-----------------------------------------------------------------------------
(* DocumentCompiler.generate_template_tree *)

\* The templates of the specification (A is the main template), the
\* templates of the shared library, and a name found in neither.
LocalTemplates == {"A", "B", "C", "D"}
LibraryTemplates == {"L"}

\* The include statements a template's content may hold, in their order.
IncludeChoices ==
    [A : {<<"B", "C">>, <<"B", "B">>, <<"L", "B">>, <<"B">>, <<"M">>},
     B : {<<>>, <<"C">>, <<"A">>, <<"L">>, <<"B">>},
     C : {<<>>, <<"D">>, <<"A">>},
     D : {<<>>}]

\* The names in reverse order of inclusion.
included_templates_reversed(content) ==
    [i \in DOMAIN content |-> content[Len(content) + 1 - i]]

\* renderer.included_templates: the included names in inclusion order,
\* one per include statement
included_templates(content) == content

Node(name, parent) == [name |-> name, parent |-> parent, attached |-> TRUE]

\* lines 147-156: the last node of the stack is read and a child node is
\* made and pushed for every template it includes
ExpandNode ==
    /\ treePc = "building"
    /\ LET current_node == stack[Len(stack)]
           name == treeNodes[current_node].name
       IN  /\ name \in LocalTemplates
           /\ LET fragments_found == included_templates(templates[name])
                  n == Len(treeNodes)
                  rest == SubSeq(stack, 1, Len(stack) - 1)
              IN  /\ n + Len(fragments_found) <= MaxTreeNodes
                  /\ treeNodes' = treeNodes \o
                        [i \in DOMAIN fragments_found |->
                            Node(fragments_found[i], current_node)]
                  /\ stack' = rest \o
                        [i \in DOMAIN fragments_found |-> n + i]
                  /\ treePc' = IF rest = <<>> /\ fragments_found = <<>>
                               THEN "done" ELSE "building"
    /\ UNCHANGED <<templates, libraryPathSet, librarySep, treeError>>

\* line 159: os.path.exists(common_template_dir + current_node.name); the
\* directory and the name are joined as strings, without a separator, so
\* the file is found when the variable's value ends with one
InLibrary(name) == librarySep /\ name \in LibraryTemplates

\* lines 157-171: a template that is not in the templates directory but in
\* the library is taken out of its parent's children
RemoveLibraryNode ==
    /\ treePc = "building"
    /\ LET current_node == stack[Len(stack)]
           rest == SubSeq(stack, 1, Len(stack) - 1)
       IN  /\ treeNodes[current_node].name \notin LocalTemplates
           /\ libraryPathSet
           /\ InLibrary(treeNodes[current_node].name)
           /\ treeNodes' = [treeNodes EXCEPT ![current_node].attached = FALSE]
           /\ stack' = rest
           /\ treePc' = IF rest = <<>> THEN "done" ELSE "building"
    /\ UNCHANGED <<templates, libraryPathSet, librarySep, treeError>>

\* lines 157-165: os.environ[...] raises KeyError when the variable is not
\* set; for a template found nowhere the message is built by format() with
\* two fields and one argument, which raises IndexError
RaiseTemplateError ==
    /\ treePc = "building"
    /\ LET name == treeNodes[stack[Len(stack)]].name
       IN  /\ name \notin LocalTemplates
           /\ ~libraryPathSet \/ ~InLibrary(name)
           /\ treeError' = IF ~libraryPathSet THEN "KeyError"
                           ELSE "IndexError"
    /\ treePc' = "error"
    /\ UNCHANGED <<templates, libraryPathSet, librarySep, treeNodes, stack>>

\* The children of a node, in the order of node.children, ...
Children(nodes, n) ==
    SelectSeq([i \in DOMAIN nodes |-> i],
              LAMBDA i : nodes[i].parent = n /\ nodes[i].attached)

\* ... and PreOrderIter below a list of siblings
RECURSIVE PreOrderOf(_, _)
PreOrderOf(nodes, siblings) ==
    IF siblings = <<>> THEN <<>>
    ELSE <<siblings[1]>> \o PreOrderOf(nodes, Children(nodes, siblings[1]))
         \o PreOrderOf(nodes, Tail(siblings))

PreOrderIter(nodes) == PreOrderOf(nodes, <<1>>)

\* lines 145-146: the root node of the main template is on the stack
TreeStart ==
    /\ templates \in IncludeChoices
    /\ libraryPathSet \in BOOLEAN
    /\ librarySep \in BOOLEAN
    /\ librarySep => libraryPathSet
    /\ treeNodes = <<Node("A", 0)>>
    /\ stack = <<1>>
    /\ treePc = "building"
    /\ treeError = "none"

\* No construction under way.
TreeIdle ==
    /\ templates = [t \in LocalTemplates |-> <<>>]
    /\ libraryPathSet = FALSE
    /\ librarySep = FALSE
    /\ treeNodes = <<>>
    /\ stack = <<>>
    /\ treePc = "idle"
    /\ treeError = "none"

treeVars ==
    <<templates, libraryPathSet, librarySep, treeNodes, stack, treePc,
      treeError>>

-----------------------------------------------------------------------------
(* FragmentCompiler.fetch_info: the data fetching stage of a fragment *)

\* The 'name' a fetcher declaration may carry; "" stands for no name.
FetcherNames == {"", "a", "1", "fetcher_id"}

\* The declarations of a fragment: up to MaxFetchers fetchers.
FetcherLists ==
    UNION {[1..n -> FetcherNames] : n \in 0..MaxFetchers}

\* str(i) of the position of a fetcher in the list, counted from 0
StrOfIndex(i) == <<"0", "1", "2", "3", "4">>[i]

\* lines 929-933: the name if there is one, else the position
FetcherId(info, i) == IF info[i] = "" THEN StrOfIndex(i) ELSE info[i]

\* line 934: data.get('fetcher_id') looks up the key 'fetcher_id', not the
\* id of the fetcher
DuplicateFound(data, fetcher_id) ==
    \E j \in DOMAIN data : data[j] = "fetcher_id"

\* line 941: data[fetcher_id] = dt, in an OrderedDict
Store(data, fetcher_id) ==
    IF \E j \in DOMAIN data : data[j] = fetcher_id THEN data
    ELSE Append(data, fetcher_id)

\* lines 915-941: one pass of the loop, the fetcher returning its data
FetchOne ==
    /\ fetchPc = "fetching"
    /\ fetchPos <= Len(fetchers_info)
    /\ LET fetcher_id == FetcherId(fetchers_info, fetchPos)
       IN  IF DuplicateFound(fetchedData, fetcher_id)
           THEN /\ fetchError' = "Fetcher id is duplicated"
                /\ fetchPc' = "failed"
                /\ UNCHANGED <<fetchedData, fetchPos>>
           ELSE /\ fetchedData' = Store(fetchedData, fetcher_id)
                /\ fetchPos' = fetchPos + 1
                /\ UNCHANGED <<fetchPc, fetchError>>
    /\ UNCHANGED fetchers_info

\* line 928: the fetcher raises
FetcherFails ==
    /\ fetchPc = "fetching"
    /\ fetchPos <= Len(fetchers_info)
    /\ fetchError' = "DataFetchingError"
    /\ fetchPc' = "failed"
    /\ UNCHANGED <<fetchers_info, fetchPos, fetchedData>>

\* line 943 and FragmentCompiler.compile, lines 815-819: the data is
\* returned and the context generation stage is invoked with it
InvokeStrategy ==
    /\ fetchPc = "fetching"
    /\ fetchPos > Len(fetchers_info)
    /\ fetchPc' = "generating"
    /\ UNCHANGED <<fetchers_info, fetchPos, fetchedData, fetchError>>

FetchStart ==
    /\ fetchers_info \in FetcherLists
    /\ fetchPos = 1
    /\ fetchedData = <<>>
    /\ fetchPc = "fetching"
    /\ fetchError = "none"

\* No fragment is fetching.
FetchIdle ==
    /\ fetchers_info = <<>>
    /\ fetchPos = 1
    /\ fetchedData = <<>>
    /\ fetchPc = "idle"
    /\ fetchError = "none"

fetchVars == <<fetchers_info, fetchPos, fetchedData, fetchPc, fetchError>>

-----------------------------------------------------------------------------
(* _generate_fragment and FragmentCompiler.compile, stage by stage *)

\* The inputs a compilation has gathered: the document parameter and the
\* metadata it is called with, the source file, and the data once fetched.
StageInputs(code, doc_param, data, metadata) ==
    [code |-> code, doc_param |-> doc_param, data |-> data,
     metadata |-> metadata]

NoStageInputs ==
    StageInputs("", <<>>, <<>>, EffectiveMetadata(<<>>, "", FALSE))

\* The exception that left a stage.
StageFailure(stage, type) == [stage |-> stage, type |-> type]

NoStageFailure == StageFailure("none", "none")

\* What a strategy may return: a mapping, or a value that is none (a list)
ContextKinds == {"mapping", "list"}

\* The context in the hands of _generate_fragment: what kind of value it
\* is ("empty" the mapping {}, "wrapped" the mapping {'data': context}) and
\* the context itself.
FragmentResult(kind, context) == [kind |-> kind, context |-> context]

NoFragmentResult == FragmentResult("none", NoContext)

\* The kind of a context, which its JSON text keeps
KindOf(context) == context.origin[5]

\* The result handed on as compile returned it.
Unwrapped(result) == result

\* documentcompilers.py lines 423-424
Wrapped(result) ==
    IF result.kind = "list" THEN FragmentResult("wrapped", result.context)
    ELSE result

\* documentcompilers.py lines 414 and 421-425: a node without a source
\* file gets the empty mapping
SourcelessFragment ==
    /\ stagePc \in {"idle", "returned", "raised"}
    /\ runs < MaxCompiles
    /\ runs' = runs + 1
    /\ stageIn' = NoStageInputs
    /\ stagePc' = "returned"
    /\ stageTrace' = <<>>
    /\ stageCheck' = NoCheck
    /\ stageWrites' = {}
    /\ stageError' = NoStageFailure
    /\ stageResult' = Wrapped(FragmentResult("empty", NoContext))
    /\ UNCHANGED <<hashFile, ctxFile, tmpFile, run>>

\* compile is called for the fragment, lines 803-811
StartCompile ==
    /\ stagePc \in {"idle", "returned", "raised"}
    /\ runs < MaxCompiles
    /\ runs' = runs + 1
    /\ \E code \in SourceVersions, doc_param \in DocParams,
          config \in Configs, skip \in BOOLEAN :
            stageIn' = StageInputs(code, doc_param, <<>>,
                           EffectiveMetadata(doc_param, config, skip))
    /\ stagePc' = "retrieve_fragment_metadata"
    /\ stageTrace' = <<>>
    /\ stageCheck' = NoCheck
    /\ stageWrites' = {}
    /\ stageError' = NoStageFailure
    /\ stageResult' = NoFragmentResult
    /\ UNCHANGED <<hashFile, ctxFile, tmpFile, run>>

\* lines 813-816: the parser reads the fragment's metadata, or raises
RetrieveMetadata ==
    /\ stagePc = "retrieve_fragment_metadata"
    /\ stageTrace' = Append(stageTrace, "retrieve_fragment_metadata")
    /\ \E raises \in BOOLEAN :
          IF raises
          THEN /\ stagePc' = "raised"
               /\ stageError' = StageFailure("retrieve_fragment_metadata",
                                             "MetadataRetrievalError")
          ELSE /\ stagePc' = "fetch_data"
               /\ UNCHANGED stageError
    /\ UNCHANGED <<stageIn, stageCheck, stageWrites, stageResult, cacheVars>>

\* lines 817-818: the fetchers return the data, or one of them raises
FetchData ==
    /\ stagePc = "fetch_data"
    /\ stageTrace' = Append(stageTrace, "fetch_data")
    /\ \/ /\ stagePc' = "raised"
          /\ stageError' = StageFailure("fetch_data", "DataFetchingError")
          /\ UNCHANGED stageIn
       \/ /\ \E data \in FetchedData :
                stageIn' = [stageIn EXCEPT !.data = data]
          /\ stagePc' = "cache_check"
          /\ UNCHANGED stageError
    /\ UNCHANGED <<stageCheck, stageWrites, stageResult, cacheVars>>

\* base.py lines 53-130: the fingerprint is compared with the stored one,
\* unless skip_unchanged_fragments is off, and the inputs are written to the
\* tmp file
CheckCache ==
    /\ stagePc = "cache_check"
    /\ LET key == FragmentKey(stageIn.metadata)
           current_hash == CurrentHash(stageIn.code, stageIn.doc_param,
                                       stageIn.data, stageIn.metadata)
           check == IF stageIn.metadata.skip_unchanged_fragments
                    THEN CacheCheck(current_hash, hashFile[key], ctxFile[key])
                    ELSE NoCheck
       IN  /\ stageCheck' = check
           /\ stageTrace' =
                 IF stageIn.metadata.skip_unchanged_fragments
                 THEN Append(stageTrace, "cache_check") ELSE stageTrace
           /\ IF check.error # "none"
              THEN /\ stagePc' = "raised"
                   /\ stageError' = StageFailure("cache_check", check.error)
                   /\ UNCHANGED <<tmpFile, stageWrites>>
              ELSE /\ stageWrites' = {".json"}
                   /\ tmpFile' = [tmpFile EXCEPT ![key] =
                                    File(<<stageIn.doc_param,
                                           DataJson(stageIn.data),
                                           stageIn.metadata>>)]
                   /\ stagePc' = IF check.context # NoContext
                                 THEN "reuse" ELSE "generate_context"
                   /\ UNCHANGED stageError
    /\ UNCHANGED <<stageIn, stageResult, hashFile, ctxFile, run, runs>>

\* base.py lines 132-150 with context None: the strategy is invoked; what
\* it returns is recorded in the .hash and .ctx files
GenerateContext ==
    /\ stagePc = "generate_context"
    /\ stageTrace' = Append(stageTrace, "generate_context")
    /\ LET key == FragmentKey(stageIn.metadata)
           skip == stageIn.metadata.skip_unchanged_fragments
           current_hash == CurrentHash(stageIn.code, stageIn.doc_param,
                                       stageIn.data, stageIn.metadata)
           hash_written == IF skip THEN {".hash"} ELSE {}
       IN  \E strategy \in StrategyOutcomes, kind \in ContextKinds :
             LET generated == Context(<<stageIn.code, stageIn.doc_param,
                                        stageIn.data, stageIn.metadata,
                                        kind>>,
                                      strategy)
             IN  IF strategy = "raises"
                 THEN /\ stagePc' = "raised"
                      /\ stageError' = StageFailure("generate_context",
                                                    "ContextGenerationError")
                      /\ UNCHANGED <<hashFile, ctxFile, stageWrites,
                                     stageResult>>
                 ELSE /\ hashFile' = IF skip
                                     THEN [hashFile EXCEPT ![key] =
                                             File(current_hash)]
                                     ELSE hashFile
                      /\ IF Serializable(generated)
                         THEN /\ ctxFile' = [ctxFile EXCEPT ![key] =
                                         File(convert_to_json(generated))]
                              /\ stageWrites' = stageWrites \cup
                                    hash_written \cup {".ctx"}
                              /\ stagePc' = "compiled"
                              /\ stageResult' =
                                    FragmentResult(kind, generated)
                              /\ UNCHANGED stageError
                         ELSE /\ ctxFile' = [ctxFile EXCEPT ![key] =
                                                EmptyFile]
                              /\ stageWrites' = stageWrites \cup
                                    hash_written \cup {".ctx"}
                              /\ UNCHANGED stageResult
                              /\ stagePc' = "raised"
                              /\ stageError' =
                                    StageFailure("generate_context",
                                                 "TypeError")
    /\ UNCHANGED <<stageIn, stageCheck, tmpFile, run, runs>>

\* base.py lines 138-150 with the context reloaded: the strategy is left
\* out and the .ctx file written again
ReuseContext ==
    /\ stagePc = "reuse"
    /\ LET key == FragmentKey(stageIn.metadata)
       IN  ctxFile' = [ctxFile EXCEPT ![key] =
                          File(convert_to_json(stageCheck.context))]
    /\ stageWrites' = stageWrites \cup {".ctx"}
    /\ stagePc' = "compiled"
    /\ stageResult' =
          FragmentResult(KindOf(stageCheck.context), stageCheck.context)
    /\ UNCHANGED <<stageIn, stageCheck, stageTrace, stageError, hashFile,
                   tmpFile, run, runs>>

\* documentcompilers.py lines 423-425: a context that is no mapping is put
\* under the key 'data'
ReturnFragment ==
    /\ stagePc = "compiled"
    /\ stageResult' = Wrapped(stageResult)
    /\ stagePc' = "returned"
    /\ UNCHANGED <<stageIn, stageCheck, stageTrace, stageError, stageWrites,
                   cacheVars>>

\* A fragment about to be compiled.
StageStart ==
    /\ stagePc = "idle"
    /\ stageTrace = <<>>
    /\ stageIn = NoStageInputs
    /\ stageCheck = NoCheck
    /\ stageWrites = {}
    /\ stageError = NoStageFailure
    /\ stageResult = NoFragmentResult

\* No fragment is compiled stage by stage.
StageIdle ==
    /\ stagePc = "off"
    /\ stageTrace = <<>>
    /\ stageIn = NoStageInputs
    /\ stageCheck = NoCheck
    /\ stageWrites = {}
    /\ stageError = NoStageFailure
    /\ stageResult = NoFragmentResult

stageVars == <<stagePc, stageTrace, stageIn, stageCheck, stageWrites,
               stageError, stageResult>>

-----------------------------------------------------------------------------
(* DocumentCompiler.__init__ and generate_fragments_mapping *)

\* A file name is the sequence of its pieces between dots.  The files a src
\* directory may hold: sources, a backup of a source, a lock file whose
\* extension starts with no letter or digit, and a file of another name.
CandidateFiles ==
    { <<"main", "py">>, <<"chapter", "py">>, <<"chapter", "r">>,
      <<"table", "py">>, <<"table", "r">>, <<"table", "py", "bak">>,
      <<"notes", "~lock">>, <<"tables", "py">> }

\* The pieces that start with a character of [a-zA-Z0-9]
AlnumStart == {"py", "r", "bak"}

\* The extensions of source files
SourceExtensions == {"py", "r"}

\* glob(src/<basename>.[a-zA-Z0-9]*): the names that go on after the base
\* name with a dot and a letter or digit
glob(files, fragment_basename) ==
    {f \in files : /\ Len(f) >= 2
                   /\ f[1] = fragment_basename
                   /\ f[2] \in AlnumStart}

\* The test that lets several matches pass.
MoreThanOneIgnored(fragment_code) == FALSE

\* line 192: len(fragment_code) > 1
MoreThanOne(fragment_code) == Cardinality(fragment_code) > 1

NoSource == <<>>

\* lines 183-202: one pass of the loop over the nodes in pre-order
MapFragment ==
    /\ ctorPc = "mapping"
    /\ mapPos \in Nodes
    /\ LET fragment_name == TemplateTree[mapPos].name
           fragment_code == glob(srcFiles, Splitext(fragment_name))
       IN  IF fragment_code = {}
           THEN /\ mapPos' = mapPos + 1
                /\ UNCHANGED <<src_mapping, ctorPc, ctorError>>
           ELSE IF MoreThanOne(fragment_code)
           THEN /\ ctorPc' = "failed"
                /\ ctorError' = [type |-> "EnvironmentError",
                                 fragment |-> Splitext(fragment_name)]
                /\ UNCHANGED <<src_mapping, mapPos>>
           ELSE \* fragment_code[0], the first name glob lists
                /\ \E f \in fragment_code :
                      src_mapping' =
                          [n \in DOMAIN src_mapping \cup {fragment_name} |->
                              IF n = fragment_name THEN f ELSE src_mapping[n]]
                /\ mapPos' = mapPos + 1
                /\ UNCHANGED <<ctorPc, ctorError>>
    /\ UNCHANGED srcFiles

\* line 203 and line 71: the mapping is returned and the object exists
FinishConstruction ==
    /\ ctorPc = "mapping"
    /\ mapPos \notin Nodes
    /\ ctorPc' = "constructed"
    /\ UNCHANGED <<srcFiles, mapPos, src_mapping, ctorError>>

\* generate is called on the constructed object, lines 242-341: only from
\* here on fragments are compiled and files written
CallGenerate ==
    /\ ctorPc = "constructed"
    /\ ctorPc' = "generating"
    /\ UNCHANGED <<srcFiles, mapPos, src_mapping, ctorError>>

CtorStart ==
    /\ srcFiles \in SUBSET CandidateFiles
    /\ mapPos = 1
    /\ src_mapping = <<>>
    /\ ctorPc = "mapping"
    /\ ctorError = [type |-> "none", fragment |-> ""]

\* No DocumentCompiler is being constructed.
CtorIdle ==
    /\ srcFiles = {}
    /\ mapPos = 1
    /\ src_mapping = <<>>
    /\ ctorPc = "idle"
    /\ ctorError = [type |-> "none", fragment |-> ""]

ctorVars == <<srcFiles, mapPos, src_mapping, ctorPc, ctorError>>

-----------------------------------------------------------------------------
(* DocumentCompiler.generate and _generate_doc: who runs what, and when *)

\* The documents of the batch and the nodes of each document's tree
GenItems == Docs \X Nodes

\* The worker counts in use whatever the mode.
WorkersAsRequested(debug, n) == n

\* lines 265-267: debug mode sets both worker counts to 1
WorkersInUse(debug, n) == IF debug THEN 1 ELSE n

\* lines 265-272
EnterGenerate ==
    /\ genPc = "called"
    /\ genWorkers' =
          [n_doc_workers |->
              WorkersInUse(genArgs.debug_mode, genArgs.n_doc_workers),
           n_frag_workers |->
              WorkersInUse(genArgs.debug_mode, genArgs.n_frag_workers)]
    /\ genPc' = "running"
    /\ UNCHANGED <<genArgs, genDoc, genFrag, genPools>>

\* lines 276-283: the loop of the calling process takes the next document;
\* setup_environment, outside the try, may end the whole call
NextDocument(doc) ==
    /\ genPc = "running" /\ genWorkers.n_doc_workers = 1
    /\ genDoc[doc] = "pending"
    /\ \A d \in Docs : d < doc => genDoc[d] = "done"
    /\ \/ /\ genDoc' = [genDoc EXCEPT ![doc] = "running"]
          /\ UNCHANGED genPc
       \/ /\ genPc' = "raised"
          /\ UNCHANGED genDoc
    /\ UNCHANGED <<genArgs, genWorkers, genFrag, genPools>>

\* lines 294-307: a worker of the document pool takes the oldest document
\* submitted
PoolDocument(doc) ==
    /\ genPc = "running" /\ genWorkers.n_doc_workers > 1
    /\ genDoc[doc] = "pending"
    /\ \A d \in Docs : d < doc => genDoc[d] # "pending"
    /\ Cardinality({d \in Docs : genDoc[d] = "running"})
          < genWorkers.n_doc_workers
    /\ genDoc' = [genDoc EXCEPT ![doc] = "running"]
    /\ genPools' = genPools \cup {<<"documents", 0>>}
    /\ UNCHANGED <<genArgs, genWorkers, genPc, genFrag>>

\* _generate_doc line 459 and lines 573-588: the loop of the document's
\* process compiles the next node in pre-order, whatever the outcome of
\* the one before
NextFragment(doc, node) ==
    /\ genPc = "running" /\ genDoc[doc] = "running"
    /\ genWorkers.n_frag_workers = 1
    /\ genFrag[<<doc, node>>] = "pending"
    /\ \A n \in Nodes : n < node => genFrag[<<doc, n>>] = "done"
    /\ genFrag' = [genFrag EXCEPT ![<<doc, node>>] = "running"]
    /\ UNCHANGED <<genArgs, genWorkers, genPc, genDoc, genPools>>

\* lines 465-466 and 531-541: a worker of the document's fragment pool takes
\* the oldest node submitted
PoolFragment(doc, node) ==
    /\ genPc = "running" /\ genDoc[doc] = "running"
    /\ genWorkers.n_frag_workers > 1
    /\ genFrag[<<doc, node>>] = "pending"
    /\ \A n \in Nodes : n < node => genFrag[<<doc, n>>] # "pending"
    /\ Cardinality({n \in Nodes : genFrag[<<doc, n>>] = "running"})
          < genWorkers.n_frag_workers
    /\ genFrag' = [genFrag EXCEPT ![<<doc, node>>] = "running"]
    /\ genPools' = genPools \cup {<<"fragments", doc>>}
    /\ UNCHANGED <<genArgs, genWorkers, genPc, genDoc>>

\* _generate_fragment returns or raises
FragmentEnds(doc, node) ==
    /\ genPc = "running"
    /\ genFrag[<<doc, node>>] = "running"
    /\ genFrag' = [genFrag EXCEPT ![<<doc, node>>] = "done"]
    /\ UNCHANGED <<genArgs, genWorkers, genPc, genDoc, genPools>>

\* _generate_doc returns or raises after its fragments have ended
DocumentEnds(doc) ==
    /\ genPc = "running" /\ genDoc[doc] = "running"
    /\ \A n \in Nodes : genFrag[<<doc, n>>] = "done"
    /\ genDoc' = [genDoc EXCEPT ![doc] = "done"]
    /\ UNCHANGED <<genArgs, genWorkers, genPc, genFrag, genPools>>

\* lines 319-341
LeaveGenerate ==
    /\ genPc = "running"
    /\ \A d \in Docs : genDoc[d] = "done"
    /\ genPc' = "ended"
    /\ UNCHANGED <<genArgs, genWorkers, genDoc, genFrag, genPools>>

GenStart ==
    /\ genArgs \in [n_doc_workers : 1..MaxDocWorkers,
                    n_frag_workers : 1..MaxFragWorkers,
                    debug_mode : BOOLEAN]
    /\ genWorkers = [n_doc_workers |-> genArgs.n_doc_workers,
                     n_frag_workers |-> genArgs.n_frag_workers]
    /\ genPc = "called"
    /\ genDoc = [d \in Docs |-> "pending"]
    /\ genFrag = [i \in GenItems |-> "pending"]
    /\ genPools = {}

\* generate is not called.
GenIdle ==
    /\ genArgs = [n_doc_workers |-> 1, n_frag_workers |-> 1,
                  debug_mode |-> FALSE]
    /\ genWorkers = [n_doc_workers |-> 1, n_frag_workers |-> 1]
    /\ genPc = "idle"
    /\ genDoc = [d \in Docs |-> "pending"]
    /\ genFrag = [i \in GenItems |-> "pending"]
    /\ genPools = {}

genVars == <<genArgs, genWorkers, genPc, genDoc, genFrag, genPools>>

-----------------------------------------------------------------------------
(* PythonParser.generate_context and raise_generator_exception *)

\* What the user's generate_context may raise
StrategyExceptions == {"ValueError", "KeyError", "CalledProcessError"}

\* The 'debug' key of config.conf: not there, true or false
ConfigDebug == {"absent", "true", "false"}

\* The metadata of the failing call: the configuration's 'debug' key, the
\* 'debug_mode' key generate sets at line 271, and the fragment name.
FailingCalls ==
    [debug : ConfigDebug, debug_mode : BOOLEAN,
     fragment_name : {"table", "chapter"}, doc_param : DocParams,
     data : FetchedData, exception : StrategyExceptions]

NoFailure == [type |-> "none", location |-> "", cause |-> "none"]

\* python.py lines 26-32: the strategy returns, or its exception is caught
RunStrategy ==
    /\ failPc = "called"
    /\ \E raises \in BOOLEAN :
          failPc' = IF raises THEN "caught" ELSE "returned"
    /\ UNCHANGED <<failIn, failError, errorFiles>>

\* The snapshot _build_debug_info writes
Snapshot(call) ==
    [doc_param |-> call.doc_param, data |-> DataJson(call.data),
     debug |-> call.debug, debug_mode |-> call.debug_mode,
     fragment_name |-> call.fragment_name]

\* line 220: context['debug'], the key of the configuration
DebugKey(call) ==
    [present |-> call.debug # "absent", value |-> call.debug = "true"]

\* base.py lines 220-242
RaiseGeneratorException ==
    /\ failPc = "caught"
    /\ failPc' = "raised"
    /\ IF ~DebugKey(failIn).present
       THEN \* context['debug'] raises KeyError
            /\ failError' = [type |-> "KeyError", location |-> "",
                             cause |-> failIn.exception]
            /\ UNCHANGED errorFiles
       ELSE /\ errorFiles' = IF DebugKey(failIn).value
                             THEN errorFiles \cup {Snapshot(failIn)}
                             ELSE errorFiles
            /\ failError' = [type |-> "ContextGenerationError",
                             location |-> failIn.fragment_name,
                             cause |-> failIn.exception]
    /\ UNCHANGED failIn

FailStart ==
    /\ failIn \in FailingCalls
    /\ failPc = "called"
    /\ failError = NoFailure
    /\ errorFiles = {}

\* No strategy is running.
FailIdle ==
    /\ failIn = [debug |-> "absent", debug_mode |-> FALSE,
                 fragment_name |-> "table", doc_param |-> <<>>,
                 data |-> <<>>, exception |-> "ValueError"]
    /\ failPc = "idle"
    /\ failError = NoFailure
    /\ errorFiles = {}

failVars == <<failIn, failPc, failError, errorFiles>>

-----------------------------------------------------------------------------
(* _build_full_context and the paths of update_nested_dict *)

\* A template name is the sequence of its components between separators; a
\* component is its text before the extension and its extension.
TemplateNames ==
    { << <<"main", ".tex">> >>,
      << <<"chapter", ".tex">> >>,
      << <<"table", ".tex">> >>,
      << <<"sections", "">>, <<"intro", ".tex">> >> }

\* The parents of the nodes, in the order the nodes were made; the third
\* node comes last in pre-order.
InfoParents == <<0, 1, 1, 2>>

InfoTrees ==
    { [i \in DOMAIN InfoParents |-> Node(names[i], InfoParents[i])] :
        names \in [DOMAIN InfoParents -> TemplateNames] }

\* node.path: the nodes from the root down to the node
RECURSIVE NodePath(_, _)
NodePath(nodes, n) ==
    IF nodes[n].parent = 0 THEN <<n>>
    ELSE Append(NodePath(nodes, nodes[n].parent), n)

RECURSIVE JoinComponents(_)
\* '/'.join(names): one text, in which the components of all the names
\* follow each other
JoinComponents(names) ==
    IF names = <<>> THEN <<>>
    ELSE names[1] \o JoinComponents(Tail(names))

\* line 413: fragment_path
fragment_path(nodes, n) ==
    JoinComponents([i \in DOMAIN NodePath(nodes, n) |->
                       nodes[NodePath(nodes, n)[i]].name])

\* lines 708-714: os.path.split takes the components off the path one by
\* one until the head is empty, so all but the first are kept, each
\* without its extension; every one of them is a key
nested_keys(path) ==
    [i \in 1..(Len(path) - 1) |-> <<path[i + 1][1]>>]

\* os.path.splitext(name)[0]: the whole name without the extension of its
\* last component, separators kept
NameWithoutExtension(name) == [i \in DOMAIN name |-> name[i][1]]

\* lines 593-598: the names on node.path but the first, each without its
\* extension, joined by dots: every name is one key
nesting_key(nodes, n) ==
    [i \in 1..(Len(NodePath(nodes, n)) - 1) |->
        NameWithoutExtension(nodes[NodePath(nodes, n)[i + 1]].name)]

\* lines 602-609: the contexts are merged, each at the path of its node
MergeContexts ==
    /\ infoPc = "merging"
    /\ mergedAt' = [n \in DOMAIN infoTree |->
                      nested_keys(fragment_path(infoTree, n))]
    /\ infoPc' = "merged"
    /\ UNCHANGED <<infoTree, template_context_info>>

\* lines 590-600
BuildFullContext ==
    /\ infoPc = "merged"
    /\ template_context_info' =
          [i \in DOMAIN PreOrderIter(infoTree) |->
              [name |-> infoTree[PreOrderIter(infoTree)[i]].name,
               key |-> nesting_key(infoTree, PreOrderIter(infoTree)[i])]]
    /\ infoPc' = "built"
    /\ UNCHANGED <<infoTree, mergedAt>>

InfoStart ==
    /\ infoTree \in InfoTrees
    /\ infoPc = "merging"
    /\ mergedAt = <<>>
    /\ template_context_info = <<>>

\* No context is being built.
InfoIdle ==
    /\ infoTree = <<>>
    /\ infoPc = "idle"
    /\ mergedAt = <<>>
    /\ template_context_info = <<>>

infoVars == <<infoTree, infoPc, mergedAt, template_context_info>>

-----------------------------------------------------------------------------
(* FragmentCompiler.compile: the metaNow of a fragment *)

\* A metadata value is a set of <<key, text>> pairs: a nested mapping holds
\* one pair per entry, any other value one pair with the empty key.
Scalar(text) == {<<"", text>>}

MetadataValues ==
    { Scalar("x"),
      {<<"type", "sql">>, <<"table", "t1">>},
      {<<"type", "csv">>} }

\* A dictionary with the given keys
Dicts(keys) == UNION {[ks -> MetadataValues] : ks \in SUBSET keys}

\* The document metadata: the configuration, and in the sequential loop the
\* fragment_name the fragment before has left in the dictionary
DocMetadatas ==
    { [k \in DOMAIN d \cup left |->
          IF k \in left THEN Scalar("chapter") ELSE d[k]] :
        d \in Dicts({"doc_name", "data_fetcher", "title"}),
        left \in {{}, {"fragment_name"}} }

\* What retrieve_fragment_metadata finds declared in the source file
FragmentMetadatas == Dicts({"data_fetcher", "title"})

\* metadata[key] = value
SetKey(dict, key, value) ==
    [k \in DOMAIN dict \cup {key} |-> IF k = key THEN value ELSE dict[k]]

\* del metadata[key]
DelKey(dict, key) == [k \in DOMAIN dict \ {key} |-> dict[k]]

\* The update that merges a nested mapping entry by entry.
DeepUpdate(dict, other) ==
    [k \in DOMAIN dict \cup DOMAIN other |->
        IF k \notin DOMAIN other THEN dict[k]
        ELSE IF k \notin DOMAIN dict THEN other[k]
        ELSE other[k] \cup
             {e \in dict[k] : \A f \in other[k] : f[1] # e[1]}]

\* line 816, dict.update: every key of the other dictionary gets the other
\* dictionary's value
Update(dict, other) ==
    [k \in DOMAIN dict \cup DOMAIN other |->
        IF k \in DOMAIN other THEN other[k] ELSE dict[k]]

Stages == {"fetch_data", "fingerprint", "generate_context"}

Receives(stage) == metaSeen' = [metaSeen EXCEPT ![stage] = metaNow]

\* lines 803-806: metadata is the caller's dictionary, with the fragment's
\* path and name put in
SetFragmentKeys ==
    /\ metaPc = "called"
    /\ metaNow' = SetKey(SetKey(metaDoc, "fragment_path",
                                 Scalar("src/table.py")),
                           "fragment_name", Scalar("table"))
    /\ metaPc' = "retrieve_fragment_metadata"
    /\ UNCHANGED <<metaDoc, metaFrag, metaSeen>>

\* lines 813-816
UpdateMetadata ==
    /\ metaPc = "retrieve_fragment_metadata"
    /\ metaNow' = Update(metaNow, metaFrag)
    /\ metaPc' = "fetch_data"
    /\ UNCHANGED <<metaDoc, metaFrag, metaSeen>>

\* lines 817-818: fetch_data(doc_param, metadata)
FetchStage ==
    /\ metaPc = "fetch_data"
    /\ Receives("fetch_data")
    /\ metaPc' = "fingerprint"
    /\ UNCHANGED <<metaDoc, metaFrag, metaNow>>

\* base.py lines 65-67: json.dumps(metadata) is hashed
FingerprintStage ==
    /\ metaPc = "fingerprint"
    /\ Receives("fingerprint")
    /\ metaPc' = "tmp"
    /\ UNCHANGED <<metaDoc, metaFrag, metaNow>>

\* base.py lines 126-130: the tmp file is written and its name put in
WriteTmpFile ==
    /\ metaPc = "tmp"
    /\ metaNow' = SetKey(metaNow, "cache_file", Scalar("table.json"))
    /\ metaPc' = "generate_context"
    /\ UNCHANGED <<metaDoc, metaFrag, metaSeen>>

\* base.py lines 132-149: generate_context(doc_param, data, metadata), and
\* cache_file is taken out again
GenerateStage ==
    /\ metaPc = "generate_context"
    /\ Receives("generate_context")
    /\ metaNow' = DelKey(metaNow, "cache_file")
    /\ metaPc' = "returned"
    /\ UNCHANGED <<metaDoc, metaFrag>>

MetaStart ==
    /\ metaDoc \in DocMetadatas
    /\ metaFrag \in FragmentMetadatas
    /\ metaNow = metaDoc
    /\ metaPc = "called"
    /\ metaSeen = [stage \in Stages |-> <<>>]

\* compile is not called.
MetaIdle ==
    /\ metaDoc = <<>>
    /\ metaFrag = <<>>
    /\ metaNow = <<>>
    /\ metaPc = "idle"
    /\ metaSeen = [stage \in Stages |-> <<>>]

metaVars == <<metaDoc, metaFrag, metaNow, metaPc, metaSeen>>

-----------------------------------------------------------------------------
(* DocumentSpecification.__init__ *)

\* dir_path: None, a directory that exists or one that does not;
\* repo_url: None or the address of a repository
SpecArguments ==
    [dir_path : {"None", "existing", "missing"},
     repo_url : {"None", "url"},
     create : BOOLEAN]

\* Whether the specification directory, its parent, its config.conf and
\* its main template exist
Disks ==
    {d \in [parent : BOOLEAN, dir : BOOLEAN, config : BOOLEAN,
            template : BOOLEAN] :
        /\ d.dir => d.parent
        /\ d.config => d.dir
        /\ d.template => d.dir}

\* The test that lets a call without arguments pass.
NothingSpecifiedIgnored(args) == FALSE

\* line 50: dir_path is None and repo_url is None
NothingSpecified(args) == args.dir_path = "None" /\ args.repo_url = "None"

Raises(type) == specPc' = "raised" /\ specError' = type

\* lines 44-48: with create, the specification directory is made
CreateSpecification ==
    /\ specPc = "called"
    /\ IF ~specArgs.create
       THEN /\ specPc' = "arguments"
            /\ UNCHANGED <<specError, disk, diskOps>>
       ELSE IF specArgs.repo_url # "None"
       THEN Raises("ValueError") /\ UNCHANGED <<disk, diskOps>>
       ELSE IF specArgs.dir_path = "None"
       THEN \* os.path.join(None, ..)
            Raises("TypeError") /\ UNCHANGED <<disk, diskOps>>
       ELSE IF ~disk.parent \/ specArgs.dir_path = "existing"
       THEN /\ Raises("EnvironmentError")
            /\ diskOps' = diskOps \cup {"exists"}
            /\ UNCHANGED disk
       ELSE /\ disk' = [parent |-> TRUE, dir |-> TRUE, config |-> TRUE,
                        template |-> FALSE]
            /\ diskOps' = diskOps \cup {"exists", "mkdir", "write"}
            /\ specPc' = "arguments"
            /\ UNCHANGED specError
    /\ UNCHANGED specArgs

\* lines 50-55
CheckArguments ==
    /\ specPc = "arguments"
    /\ IF NothingSpecified(specArgs)
       THEN Raises("ValueError")
       ELSE IF specArgs.repo_url # "None" /\ specArgs.dir_path = "None"
       THEN Raises("ValueError")
       ELSE /\ specPc' = IF specArgs.repo_url # "None"
                         THEN "repository" ELSE "path"
            /\ UNCHANGED specError
    /\ UNCHANGED <<specArgs, disk, diskOps>>

\* lines 56-66: the repository is cloned below dir_path
CloneRepository ==
    /\ specPc = "repository"
    /\ diskOps' = diskOps \cup {"exists", "mkdir", "git"}
    /\ \E cloned \in Disks :
          /\ cloned.parent
          /\ disk' = cloned
    /\ specPc' = "path"
    /\ UNCHANGED <<specArgs, specError>>

\* lines 67-83: the directory, config.conf and the main template are
\* looked for and the configuration is read
LoadSpecification ==
    /\ specPc = "path"
    /\ IF specArgs.dir_path = "None"
       THEN \* os.path.abspath(None)
            Raises("TypeError") /\ UNCHANGED diskOps
       ELSE /\ diskOps' = diskOps \cup
                  (IF disk.dir /\ disk.config
                   THEN {"exists", "read"} ELSE {"exists"})
            /\ IF ~disk.dir \/ ~disk.config \/ ~disk.template
               THEN Raises("FileNotFoundError")
               ELSE specPc' = "constructed" /\ UNCHANGED specError
    /\ UNCHANGED <<specArgs, disk>>

SpecStart ==
    /\ specArgs \in SpecArguments
    /\ disk \in Disks
    /\ disk.dir <=> specArgs.dir_path = "existing"
    /\ specPc = "called"
    /\ specError = "none"
    /\ diskOps = {}

\* No DocumentSpecification is being constructed.
SpecIdle ==
    /\ specArgs = [dir_path |-> "None", repo_url |-> "None",
                   create |-> FALSE]
    /\ disk = [parent |-> FALSE, dir |-> FALSE, config |-> FALSE,
               template |-> FALSE]
    /\ specPc = "idle"
    /\ specError = "none"
    /\ diskOps = {}

specVars == <<specArgs, disk, specPc, specError, diskOps>>

-----------------------------------------------------------------------------
(* SQLQueryBuilder.build *)

\* Names as sequences of characters: "w" is a word character, "." a dot
\* and " " any other character
SqlNames ==
    {<<"w">>, <<"w", ".", "w">>, <<"w", " ", "w">>, <<>>, <<".">>,
     <<"w", ".", "w", ".", "w">>}

\* 'table': missing, a str, a dict of name and alias pairs, or another
\* type
SqlTables ==
    {[kind |-> "none", items |-> <<>>], [kind |-> "other", items |-> <<>>]}
    \cup {[kind |-> "str", items |-> <<n>>] : n \in SqlNames}
    \cup {[kind |-> "dict", items |-> <<n, <<"w">> >>] : n \in SqlNames}
    \cup {[kind |-> "dict", items |-> <<<<"w">>, n>>] : n \in SqlNames}
    \cup {[kind |-> "dict", items |-> << <<"w">>, <<"w">>, <<"w">>, <<"w">> >>]}

\* 'fields': missing or a list of names
SqlFields ==
    {[kind |-> "none", items |-> <<>>], [kind |-> "list", items |-> <<>>]}
    \cup {[kind |-> "list", items |-> <<n>>] : n \in SqlNames}
    \cup {[kind |-> "list", items |-> <<n, m>>] : n, m \in SqlNames}

FetcherInfos == [raw_query : BOOLEAN, table : SqlTables, fields : SqlFields]

NoQuery == [select |-> <<>>, from |-> <<>>, raw |-> FALSE]

\* re.fullmatch(r'\w*', name)
match1(name) == \A i \in 1..Len(name) : name[i] = "w"

\* re.fullmatch(r'\w*\.\w*', name)
match2(name) ==
    \E i \in 1..Len(name) :
        /\ name[i] = "."
        /\ \A j \in (1..Len(name)) \ {i} : name[j] = "w"

\* _validate_sql_varname: TRUE when no exception is raised for the list
_validate_sql_varname(var) ==
    \A k \in 1..Len(var) : match1(var[k]) \/ match2(var[k])

SqlRaises == sqlPc' = "raised" /\ sqlError' = "DataFetchingError"

\* lines 40-41: a raw query replaces every clause
UseRawQuery ==
    /\ sqlPc = "build"
    /\ fetcher_info.raw_query
    /\ sqlQuery' = [sqlQuery EXCEPT !.raw = TRUE]
    /\ sqlPc' = "join"
    /\ UNCHANGED <<fetcher_info, sqlError>>

\* _create_select_clause
_create_select_clause ==
    /\ sqlPc = "build"
    /\ ~fetcher_info.raw_query
    /\ IF fetcher_info.fields.kind = "none"
       THEN SqlRaises /\ UNCHANGED sqlQuery
       ELSE /\ sqlQuery' =
                  [sqlQuery EXCEPT !.select = fetcher_info.fields.items]
            /\ sqlPc' = "from"
            /\ UNCHANGED sqlError
    /\ UNCHANGED fetcher_info

\* _create_from_clause
_create_from_clause ==
    /\ sqlPc = "from"
    /\ LET table == fetcher_info.table
       IN  IF \/ table.kind \in {"none", "other"}
              \/ table.kind = "dict" /\ Len(table.items) # 2
              \/ ~_validate_sql_varname(table.items)
           THEN SqlRaises /\ UNCHANGED sqlQuery
           ELSE /\ sqlQuery' = [sqlQuery EXCEPT !.from = table.items]
                /\ sqlPc' = "join"
                /\ UNCHANGED sqlError
    /\ UNCHANGED fetcher_info

\* lines 46-67: the other clauses are empty when the specification has no
\* key for them, and the query is returned
ReturnQuery ==
    /\ sqlPc = "join"
    /\ sqlPc' = "returned"
    /\ UNCHANGED <<fetcher_info, sqlError, sqlQuery>>

SqlStart ==
    /\ fetcher_info \in FetcherInfos
    /\ sqlPc = "build"
    /\ sqlError = "none"
    /\ sqlQuery = NoQuery

\* No query is being built.
SqlIdle ==
    /\ fetcher_info = [raw_query |-> FALSE,
                       table |-> [kind |-> "none", items |-> <<>>],
                       fields |-> [kind |-> "none", items |-> <<>>]]
    /\ sqlPc = "idle"
    /\ sqlError = "none"
    /\ sqlQuery = NoQuery

sqlVars == <<fetcher_info, sqlPc, sqlError, sqlQuery>>

-----------------------------------------------------------------------------
(* SQLQueryBuilder: the order of the SELECT and ORDER BY lists *)

\* Column names, as their rank in the order of strings
SqlColumns == {1, 2, 3}

\* A mapping in its iteration order: a sequence of <<key, value>> with
\* distinct keys
OrderedMappings(values) ==
    {om \in UNION {[1..n -> SqlColumns \X values] : n \in 0..3} :
        \A i, j \in 1..Len(om) : om[i][1] = om[j][1] => i = j}

\* The same pairs, in any order
SamePairs(a, b) ==
    /\ Len(a) = Len(b)
    /\ {a[i] : i \in 1..Len(a)} = {b[i] : i \in 1..Len(b)}

OrderSpecs ==
    [fields : OrderedMappings({"alias"}) \ {<<>>},
     sort : OrderedMappings({"ASC", "DESC"})]

\* lines 73-78: one term per item of the mapping, in its iteration order
alias_list(column_aliases) == column_aliases

\* lines 237-242: one term per item of the mapping, sorted; terms of
\* different columns compare as the column names do
sort_values(sort_vars) ==
    SortSeq(sort_vars, LAMBDA a, b : a[1] < b[1])

NoLists == [select |-> <<>>, order_by |-> <<>>]

\* build, for one of the two specifications
BuildOrdered(i) ==
    /\ i \notin orderPc
    /\ orderPc' = orderPc \cup {i}
    /\ orderOut' = [orderOut EXCEPT ![i] =
          [select |-> alias_list(orderIn[i].fields),
           order_by |-> sort_values(orderIn[i].sort)]]
    /\ UNCHANGED orderIn

OrderStart ==
    /\ orderIn \in [1..2 -> OrderSpecs]
    /\ SamePairs(orderIn[1].fields, orderIn[2].fields)
    /\ SamePairs(orderIn[1].sort, orderIn[2].sort)
    /\ orderPc = {}
    /\ orderOut = [i \in 1..2 |-> NoLists]

\* No pair of queries is being built.
OrderIdle ==
    /\ orderIn = [i \in 1..2 |-> [fields |-> <<>>, sort |-> <<>>]]
    /\ orderPc = {1, 2}
    /\ orderOut = [i \in 1..2 |-> NoLists]

orderVars == <<orderIn, orderPc, orderOut>>

-----------------------------------------------------------------------------
(* FragmentCompiler.fetch_info: the declaration of the fetchers *)

\* The stages that call fetch_info
FetchStages == {"fetch_data", "augment_doc_param", "fetch_allowed_param_values"}

\* lines 83-85, 738-740, 865: the key each stage asks for
fetcher_key(stage) ==
    CASE stage = "fetch_data" -> "data_fetcher"
      [] stage = "augment_doc_param" -> "params_augmentation"
      [] stage = "fetch_allowed_param_values" -> "params_allowed_values"

\* Under a key: nothing, one declaration or a list of two
Declarations == {"absent", "single", "list"}

DeclKeys ==
    {"data_fetcher", "params_augmentation", "params_allowed_values",
     "fetch_data"}

DeclMetadatas ==
    [keys : [DeclKeys -> Declarations],
     logger_name : BOOLEAN,
     doc_suffix : BOOLEAN]

\* line 898: if fetcher_key == 'fetch_data'
Mandatory(key) == key = "fetch_data"

\* lines 890-913: the declarations under the key are looked up
LookUpFetchers ==
    /\ declPc = "called"
    /\ LET key == fetcher_key(declStage)
           found == declMeta.keys[key]
       IN  IF found # "absent"
           THEN /\ declList' = IF found = "single" THEN 1 ELSE 2
                /\ declPc' = "fetching"
                /\ UNCHANGED declError
           ELSE IF declMeta.logger_name /\ ~declMeta.doc_suffix
           THEN \* metadata['doc_suffix'] in the log call
                /\ declError' = "KeyError"
                /\ declPc' = "raised"
                /\ UNCHANGED declList
           ELSE IF Mandatory(key)
           THEN /\ declError' = "NotImplementedError"
                /\ declPc' = "raised"
                /\ UNCHANGED declList
           ELSE /\ declList' = 0
                /\ declPc' = "fetching"
                /\ UNCHANGED declError
    /\ UNCHANGED <<declStage, declMeta, declData, declInvoked>>

\* lines 915-941: one fetcher is invoked and its data stored
InvokeFetcher ==
    /\ declPc = "fetching"
    /\ declList > 0
    /\ declInvoked' = declInvoked + 1
    /\ declList' = declList - 1
    /\ \/ declData' = declData + 1 /\ UNCHANGED <<declPc, declError>>
       \/ /\ declError' = "DataFetchingError"
          /\ declPc' = "raised"
          /\ UNCHANGED declData
    /\ UNCHANGED <<declStage, declMeta>>

\* line 943
ReturnData ==
    /\ declPc = "fetching"
    /\ declList = 0
    /\ declPc' = "returned"
    /\ UNCHANGED <<declStage, declMeta, declError, declList, declData,
                   declInvoked>>

DeclStart ==
    /\ declStage \in FetchStages
    /\ declMeta \in DeclMetadatas
    /\ declPc = "called"
    /\ declError = "none"
    /\ declList = 0
    /\ declData = 0
    /\ declInvoked = 0

\* fetch_info is not running.
DeclIdle ==
    /\ declStage = "fetch_data"
    /\ declMeta = [keys |-> [k \in DeclKeys |-> "absent"],
                   logger_name |-> FALSE, doc_suffix |-> FALSE]
    /\ declPc = "idle"
    /\ declError = "none"
    /\ declList = 0
    /\ declData = 0
    /\ declInvoked = 0

declVars ==
    <<declStage, declMeta, declPc, declError, declList, declData, declInvoked>>

-----------------------------------------------------------------------------
(* setup_and_generate_context: the snapshot handed to the strategy *)

\* Two fragments of one document are compiled, one after the other or by
\* two workers of the pool
Compilations == {1, 2}

HandNames == {"table", "intro"}

HandData == {"d1", "d2"}

HandInputs == [name : HandNames, data : HandData]

MissingSnapshot == <<"missing">>

\* open(.., 'w') has emptied the file and nothing is written yet
EmptySnapshot == <<"empty">>

\* lines 127-129: json.dumps of doc_param, data and metadata; the
\* document parameter is the same for all fragments of a document and the
\* metadata differs by fragment_name
SnapshotOf(input) == <<"snapshot", input.data, input.name>>

\* line 44-46: the name of the file has the suffix and the fragment name
fragment_tmp_basename(input) == input.name

\* In sequential mode a fragment starts after the ones before it ended
MayRun(c) ==
    \/ handMode = "pool"
    \/ \A b \in Compilations : b < c => handPc[b] \in {"done", "reused", "failed", "unstored"}

\* lines 53-124: the fingerprint is computed and compared
Fingerprint(c) ==
    /\ handPc[c] = "start"
    /\ MayRun(c)
    /\ handPc' = [handPc EXCEPT ![c] = "checked"]
    /\ UNCHANGED <<handMode, handIn, handFile, handMeta>>

\* line 126: the file is opened for writing
OpenSnapshot(c) ==
    /\ handPc[c] = "checked"
    /\ handFile' = [handFile EXCEPT
          ![fragment_tmp_basename(handIn[c])] = EmptySnapshot]
    /\ handPc' = [handPc EXCEPT ![c] = "open"]
    /\ UNCHANGED <<handMode, handIn, handMeta>>

\* lines 127-130: the snapshot is written, its name kept in the metadata
WriteSnapshot(c) ==
    /\ handPc[c] = "open"
    /\ handFile' = [handFile EXCEPT
          ![fragment_tmp_basename(handIn[c])] = SnapshotOf(handIn[c])]
    /\ handMeta' = [handMeta EXCEPT
          ![c] = fragment_tmp_basename(handIn[c])]
    /\ handPc' = [handPc EXCEPT ![c] = "written"]
    /\ UNCHANGED <<handMode, handIn>>

\* line 133: the strategy is invoked
CallStrategy(c) ==
    /\ handPc[c] = "written"
    /\ handPc' = [handPc EXCEPT ![c] = "generating"]
    /\ UNCHANGED <<handMode, handIn, handFile, handMeta>>

\* lines 138-149: a stored context is reused, cache_file is deleted
SkipStrategy(c) ==
    /\ handPc[c] = "written"
    /\ handMeta' = [handMeta EXCEPT ![c] = "none"]
    /\ handPc' = [handPc EXCEPT ![c] = "reused"]
    /\ UNCHANGED <<handMode, handIn, handFile>>

\* lines 133-149: the strategy returns, cache_file is deleted
StrategyReturns(c) ==
    /\ handPc[c] = "generating"
    /\ handMeta' = [handMeta EXCEPT ![c] = "none"]
    /\ handPc' = [handPc EXCEPT ![c] = "done"]
    /\ UNCHANGED <<handMode, handIn, handFile>>

\* line 133: the strategy raises
StrategyRaises(c) ==
    /\ handPc[c] = "generating"
    /\ handPc' = [handPc EXCEPT ![c] = "failed"]
    /\ UNCHANGED <<handMode, handIn, handFile, handMeta>>

\* lines 146-147: the strategy has returned and convert_to_json raises
\* for its context
StoreFails(c) ==
    /\ handPc[c] = "generating"
    /\ handPc' = [handPc EXCEPT ![c] = "unstored"]
    /\ UNCHANGED <<handMode, handIn, handFile, handMeta>>

HandStart ==
    /\ handMode \in {"sequential", "pool"}
    /\ handIn \in [Compilations -> HandInputs]
    /\ handPc = [c \in Compilations |-> "start"]
    /\ handFile = [n \in HandNames |-> MissingSnapshot]
    /\ handMeta = [c \in Compilations |-> "none"]

\* No fragment is being handed to a strategy.
HandIdle ==
    /\ handMode = "sequential"
    /\ handIn = [c \in Compilations |-> [name |-> "table", data |-> "d1"]]
    /\ handPc = [c \in Compilations |-> "idle"]
    /\ handFile = [n \in HandNames |-> MissingSnapshot]
    /\ handMeta = [c \in Compilations |-> "none"]

handVars == <<handMode, handIn, handPc, handFile, handMeta>>

-----------------------------------------------------------------------------
(* DocumentSpecification._check_and_clean_duplicate_variables *)

MaxDocParams == 4

\* The document parameters a list may repeat
DupParams == {"p", "q", "r"}

DupLists == UNION {[1..n -> DupParams] : n \in 0..MaxDocParams}

\* list.count
count(list, x) == Cardinality({i \in 1..Len(list) : list[i] = x})

\* list.remove: the first occurrence is taken out
remove(list, x) ==
    LET first == CHOOSE i \in 1..Len(list) :
                     /\ list[i] = x
                     /\ \A j \in 1..(i - 1) : list[j] # x
    IN  [i \in 1..(Len(list) - 1) |->
            IF i < first THEN list[i] ELSE list[i + 1]]

\* lines 325-331: one pass of the loop over the list that is being
\* changed; the iterator goes on to the next position of the list as it
\* is now
CheckDuplicate ==
    /\ dupPc = "checking"
    /\ dupPos <= Len(dupList)
    /\ LET doc_param == dupList[dupPos]
       IN  dupList' = IF count(dupList, doc_param) > 1
                      THEN remove(dupList, doc_param)
                      ELSE dupList
    /\ dupPos' = dupPos + 1
    /\ UNCHANGED <<dupInput, dupPc>>

\* line 325: the iterator is past the end of the list
EndOfList ==
    /\ dupPc = "checking"
    /\ dupPos > Len(dupList)
    /\ dupPc' = "done"
    /\ UNCHANGED <<dupInput, dupList, dupPos>>

DupStart ==
    /\ dupInput \in DupLists
    /\ dupList = dupInput
    /\ dupPos = 1
    /\ dupPc = "checking"

\* No list is being cleaned.
DupIdle ==
    /\ dupInput = <<>>
    /\ dupList = <<>>
    /\ dupPos = 1
    /\ dupPc = "idle"

dupVars == <<dupInput, dupList, dupPos, dupPc>>

-----------------------------------------------------------------------------
(* _generate_doc with one fragment worker and with several *)

FragmentModes == {"sequential", "pool"}

\* One outcome per node, the same in both runs
NodeOutcomes ==
    {f \in [Nodes -> UNION {FragmentOutcomes(n) : n \in Nodes}] :
        \A n \in Nodes : f[n] \in FragmentOutcomes(n)}

NoRunResult ==
    [context |-> <<>>, seen |-> [n \in Nodes |-> {}], error |-> NoError]

\* lines 573-588 and 531-553: the list of results, keyed by the Node in
\* the sequential loop and by the template's base name in the pool
ResultsOf(mode, outcome) ==
    [n \in Nodes |->
        fragment_info(IF mode = "sequential" THEN NodeKey(n) ELSE NameKey(n),
                      outcome[n])]

\* The metadata a node's compilation starts with: in the sequential loop
\* the one dictionary all nodes before it have written to, in the pool a
\* copy of the document's metadata
MetadataSeen(mode, outcome, node) ==
    IF mode = "pool" \/ TemplateTree[node].name \notin source_file_map
    THEN {}
    ELSE UNION {WrittenBy(n, outcome[n]) : n \in 1..(node - 1)}

\* lines 459-480: the fragments are generated in the mode, the errors are
\* raised or the contexts merged
GenerateDocument(mode) ==
    /\ mode \notin equivDone
    /\ equivDone' = equivDone \cup {mode}
    /\ LET res == ResultsOf(mode, equivOutcome)
       IN  equivRun' = [equivRun EXCEPT ![mode] =
             [context |-> IF Errors(res) = {}
                          THEN build_fragments_context(res) ELSE <<>>,
              seen |-> [n \in Nodes |->
                           MetadataSeen(mode, equivOutcome, n)],
              error |-> IF Errors(res) = {} THEN NoError
                        ELSE raise_doc_generation_errors(res)]]
    /\ UNCHANGED equivOutcome

EquivStart ==
    /\ equivOutcome \in NodeOutcomes
    /\ equivDone = {}
    /\ equivRun = [m \in FragmentModes |-> NoRunResult]

\* No pair of runs is compared.
EquivIdle ==
    /\ equivOutcome = [n \in Nodes |-> NoOutcome]
    /\ equivDone = FragmentModes
    /\ equivRun = [m \in FragmentModes |-> NoRunResult]

equivVars == <<equivOutcome, equivDone, equivRun>>

-----------------------------------------------------------------------------
(* _build_fragments_context over contexts with any kind of value *)

\* The key path of each fragment, in pre-order: main.tex, its include
\* chapter.tex and that one's include table.tex
MergePaths == << <<>>, <<"chapter">>, <<"chapter", "table">> >>

\* The kinds of value a context may hold under a key
ValueKinds == {"dict", "null", "scalar", "list"}

\* The keys each fragment may supply: one that is no template name and the
\* name of the fragment nested below it
MergeKeys == << {"value", "chapter"}, {"value", "table"}, {"value"} >>

MergeContextsOf(i) == UNION {[ks -> ValueKinds] : ks \in SUBSET MergeKeys[i]}

\* lines 716-720: the walk along the path; it ends at the first item whose
\* value is neither missing, None nor a mapping (the value has no get and
\* no update), else after the last item
Blocked(ctx, items) ==
    {i \in 1..Len(items) :
        /\ SubSeq(items, 1, i) \in DOMAIN ctx
        /\ ctx[SubSeq(items, 1, i)] \in {"scalar", "list"}}

\* lines 718-719: aux_dict[item] = {} where get(item) is None; a None that
\* was there is replaced
Created(ctx, items) ==
    {SubSeq(items, 1, i) : i \in 1..Len(items)}
        \ {p \in DOMAIN ctx : ctx[p] = "dict"}

IsBelow(p, q) == Len(p) > Len(q) /\ SubSeq(p, 1, Len(q)) = q

\* lines 716-721 when the walk gets through: the mappings along the path
\* exist and the entries of frag_context are put at the end of it, each
\* in the place of what was under its key
UpdateNested(ctx, items, frag_context) ==
    LET new == {Append(items, k) : k \in DOMAIN frag_context}
        kept == {p \in DOMAIN ctx : \A q \in new : p # q /\ ~IsBelow(p, q)}
    IN  [p \in kept \cup Created(ctx, items) \cup new |->
            IF p \in new THEN frag_context[p[Len(p)]]
            ELSE IF p \in Created(ctx, items) THEN "dict"
            ELSE ctx[p]]

\* lines 604-608: one result is merged
MergeResult ==
    /\ mergeError = "none"
    /\ mergePos <= Len(MergePaths)
    /\ LET items == MergePaths[mergePos]
       IN  IF Blocked(mergeCtx, items) # {}
           THEN /\ mergeError' = "AttributeError"
                /\ UNCHANGED <<mergeCtx, mergePos>>
           ELSE /\ mergeCtx' =
                      UpdateNested(mergeCtx, items, mergeIn[mergePos])
                /\ mergePos' = mergePos + 1
                /\ UNCHANGED mergeError
    /\ UNCHANGED mergeIn

MergeStart ==
    /\ mergeIn \in [DOMAIN MergePaths -> UNION {MergeContextsOf(i) :
                                                i \in DOMAIN MergePaths}]
    /\ \A i \in DOMAIN MergePaths : mergeIn[i] \in MergeContextsOf(i)
    /\ mergePos = 1
    /\ mergeCtx = <<>>
    /\ mergeError = "none"

\* No merge under way.
MergeIdle ==
    /\ mergeIn = [i \in DOMAIN MergePaths |-> <<>>]
    /\ mergePos = Len(MergePaths) + 1
    /\ mergeCtx = <<>>
    /\ mergeError = "none"

mergeVars == <<mergeIn, mergePos, mergeCtx, mergeError>>

batchVars == <<debug_mode, n_doc_workers, metadataDebug, metaDirExists,
               batchPc, nextDoc, docTask, docException, docAttempts,
               batchResults, batchError, recordUsers, batch_metadata,
               docSeen>>

vars == <<cacheVars, docVars, batchVars, treeVars, fetchVars,
         stageVars,
         ctorVars,
         genVars,
         failVars,
         infoVars,
         metaVars,
         specVars,
         sqlVars,
         orderVars,
         declVars,
         handVars,
         dupVars,
         equivVars,
         mergeVars>>

\* The cache directory of a specification that was never compiled.
CacheStart ==
    /\ hashFile = [k \in FragmentKeys |-> NoFile]
    /\ ctxFile = [k \in FragmentKeys |-> NoFile]
    /\ tmpFile = [k \in FragmentKeys |-> NoFile]
    /\ run = NoRun
    /\ runs = 0

\* The start of _generate_doc; n_frag_workers is the caller's choice.
DocStart ==
    /\ n_frag_workers \in 1..MaxFragWorkers
    /\ docPc = "fragments"
    /\ nextNode = 1
    /\ task = [n \in Nodes |-> "unsubmitted"]
    /\ fragmentOutcome = [n \in Nodes |-> NoOutcome]
    /\ compiles = [n \in Nodes |-> 0]
    /\ results = <<>>
    /\ docError = NoError
    /\ renderStarted = FALSE
    /\ finished = <<>>
    /\ fragments_context = <<>>
    /\ doc_metadata = {}
    /\ seenMetadata = [n \in Nodes |-> {}]

\* No document run under way.
DocIdle ==
    /\ n_frag_workers = 1
    /\ docPc = "idle"
    /\ nextNode = 1
    /\ task = [n \in Nodes |-> "unsubmitted"]
    /\ fragmentOutcome = [n \in Nodes |-> NoOutcome]
    /\ compiles = [n \in Nodes |-> 0]
    /\ results = <<>>
    /\ docError = NoError
    /\ renderStarted = FALSE
    /\ finished = <<>>
    /\ fragments_context = <<>>
    /\ doc_metadata = {}
    /\ seenMetadata = [n \in Nodes |-> {}]

\* The start of generate (lines 265-274): debug mode forces one document
\* worker; the _meta directory may or may not exist.
BatchStart ==
    /\ debug_mode \in BOOLEAN
    /\ n_doc_workers \in (IF debug_mode THEN {1} ELSE 1..MaxDocWorkers)
    /\ metadataDebug \in BOOLEAN
    /\ metaDirExists \in BOOLEAN
    /\ batchPc = "documents"
    /\ nextDoc = 1
    /\ docTask = [d \in Docs |-> "unsubmitted"]
    /\ docException = [d \in Docs |-> PendingDoc]
    /\ docAttempts = [d \in Docs |-> 0]
    /\ batchResults = <<>>
    /\ batchError = NoDocException
    /\ recordUsers = [r \in DocRecords |-> {}]
    /\ batch_metadata = {}
    /\ docSeen = [d \in Docs |-> {}]

\* No batch under way.
BatchIdle ==
    /\ debug_mode = FALSE
    /\ n_doc_workers = 1
    /\ metadataDebug = FALSE
    /\ metaDirExists = FALSE
    /\ batchPc = "idle"
    /\ nextDoc = 1
    /\ docTask = [d \in Docs |-> "unsubmitted"]
    /\ docException = [d \in Docs |-> PendingDoc]
    /\ docAttempts = [d \in Docs |-> 0]
    /\ batchResults = <<>>
    /\ batchError = NoDocException
    /\ recordUsers = [r \in DocRecords |-> {}]
    /\ batch_metadata = {}
    /\ docSeen = [d \in Docs |-> {}]

CacheInit == CacheStart /\ DocIdle /\ BatchIdle /\ TreeIdle /\ FetchIdle
    /\ StageIdle /\ CtorIdle /\ GenIdle /\ FailIdle /\ InfoIdle /\ MetaIdle
    /\ SpecIdle /\ SqlIdle /\ OrderIdle /\ DeclIdle /\ HandIdle /\ DupIdle
    /\ EquivIdle /\ MergeIdle

DocInit == CacheStart /\ DocStart /\ BatchIdle /\ TreeIdle /\ FetchIdle
    /\ StageIdle /\ CtorIdle /\ GenIdle /\ FailIdle /\ InfoIdle /\ MetaIdle
    /\ SpecIdle /\ SqlIdle /\ OrderIdle /\ DeclIdle /\ HandIdle /\ DupIdle
    /\ EquivIdle /\ MergeIdle

BatchInit == CacheStart /\ DocIdle /\ BatchStart /\ TreeIdle /\ FetchIdle
    /\ StageIdle /\ CtorIdle /\ GenIdle /\ FailIdle /\ InfoIdle /\ MetaIdle
    /\ SpecIdle /\ SqlIdle /\ OrderIdle /\ DeclIdle /\ HandIdle /\ DupIdle
    /\ EquivIdle /\ MergeIdle

TreeInit == CacheStart /\ DocIdle /\ BatchIdle /\ TreeStart /\ FetchIdle
    /\ StageIdle /\ CtorIdle /\ GenIdle /\ FailIdle /\ InfoIdle /\ MetaIdle
    /\ SpecIdle /\ SqlIdle /\ OrderIdle /\ DeclIdle /\ HandIdle /\ DupIdle
    /\ EquivIdle /\ MergeIdle

FetchInit == CacheStart /\ DocIdle /\ BatchIdle /\ TreeIdle /\ FetchStart
    /\ StageIdle /\ CtorIdle /\ GenIdle /\ FailIdle /\ InfoIdle /\ MetaIdle
    /\ SpecIdle /\ SqlIdle /\ OrderIdle /\ DeclIdle /\ HandIdle /\ DupIdle
    /\ EquivIdle /\ MergeIdle

SpecCache ==
    /\ CacheInit
    /\ [][CacheNext /\ UNCHANGED <<docVars, batchVars, treeVars, fetchVars,
                 stageVars,
                 ctorVars,
                 genVars,
                 failVars,
                 infoVars,
                 metaVars,
                 specVars,
                 sqlVars,
                 orderVars,
                 declVars,
                 handVars,
                 dupVars,
                 equivVars,
                 mergeVars>>]_vars

DocNext ==
    \/ SequentialFragment /\ UNCHANGED <<cacheVars, batchVars, treeVars, fetchVars,
                 stageVars,
                 ctorVars,
                 genVars,
                 failVars,
                 infoVars,
                 metaVars,
                 specVars,
                 sqlVars,
                 orderVars,
                 declVars,
                 handVars,
                 dupVars,
                 equivVars,
                 mergeVars>>
    \/ SubmitFragments /\ UNCHANGED <<cacheVars, batchVars, treeVars, fetchVars,
                 stageVars,
                 ctorVars,
                 genVars,
                 failVars,
                 infoVars,
                 metaVars,
                 specVars,
                 sqlVars,
                 orderVars,
                 declVars,
                 handVars,
                 dupVars,
                 equivVars,
                 mergeVars>>
    \/ \E node \in Nodes :
          WorkerStart(node) /\ UNCHANGED <<cacheVars, batchVars, treeVars, fetchVars,
                 stageVars,
                 ctorVars,
                 genVars,
                 failVars,
                 infoVars,
                 metaVars,
                 specVars,
                 sqlVars,
                 orderVars,
                 declVars,
                 handVars,
                 dupVars,
                 equivVars,
                 mergeVars>>
    \/ \E node \in Nodes :
          WorkerFinish(node) /\ UNCHANGED <<cacheVars, batchVars, treeVars, fetchVars,
                 stageVars,
                 ctorVars,
                 genVars,
                 failVars,
                 infoVars,
                 metaVars,
                 specVars,
                 sqlVars,
                 orderVars,
                 declVars,
                 handVars,
                 dupVars,
                 equivVars,
                 mergeVars>>
    \/ CollectResults /\ UNCHANGED <<cacheVars, batchVars, treeVars, fetchVars,
                 stageVars,
                 ctorVars,
                 genVars,
                 failVars,
                 infoVars,
                 metaVars,
                 specVars,
                 sqlVars,
                 orderVars,
                 declVars,
                 handVars,
                 dupVars,
                 equivVars,
                 mergeVars>>
    \/ RaiseDocErrors /\ UNCHANGED <<cacheVars, batchVars, treeVars, fetchVars,
                 stageVars,
                 ctorVars,
                 genVars,
                 failVars,
                 infoVars,
                 metaVars,
                 specVars,
                 sqlVars,
                 orderVars,
                 declVars,
                 handVars,
                 dupVars,
                 equivVars,
                 mergeVars>>
    \/ RenderDocument /\ UNCHANGED <<cacheVars, batchVars, treeVars, fetchVars,
                 stageVars,
                 ctorVars,
                 genVars,
                 failVars,
                 infoVars,
                 metaVars,
                 specVars,
                 sqlVars,
                 orderVars,
                 declVars,
                 handVars,
                 dupVars,
                 equivVars,
                 mergeVars>>

SpecDoc == DocInit /\ [][DocNext]_vars

BatchNext ==
    \/ SequentialDocument /\ UNCHANGED <<cacheVars, docVars, treeVars, fetchVars,
                 stageVars,
                 ctorVars,
                 genVars,
                 failVars,
                 infoVars,
                 metaVars,
                 specVars,
                 sqlVars,
                 orderVars,
                 declVars,
                 handVars,
                 dupVars,
                 equivVars,
                 mergeVars>>
    \/ SubmitDocuments /\ UNCHANGED <<cacheVars, docVars, treeVars, fetchVars,
                 stageVars,
                 ctorVars,
                 genVars,
                 failVars,
                 infoVars,
                 metaVars,
                 specVars,
                 sqlVars,
                 orderVars,
                 declVars,
                 handVars,
                 dupVars,
                 equivVars,
                 mergeVars>>
    \/ \E doc \in Docs :
          DocWorkerStart(doc) /\ UNCHANGED <<cacheVars, docVars, treeVars, fetchVars,
                 stageVars,
                 ctorVars,
                 genVars,
                 failVars,
                 infoVars,
                 metaVars,
                 specVars,
                 sqlVars,
                 orderVars,
                 declVars,
                 handVars,
                 dupVars,
                 equivVars,
                 mergeVars>>
    \/ \E doc \in Docs :
          DocWorkerFinish(doc) /\ UNCHANGED <<cacheVars, docVars, treeVars, fetchVars,
                 stageVars,
                 ctorVars,
                 genVars,
                 failVars,
                 infoVars,
                 metaVars,
                 specVars,
                 sqlVars,
                 orderVars,
                 declVars,
                 handVars,
                 dupVars,
                 equivVars,
                 mergeVars>>
    \/ CollectDocuments /\ UNCHANGED <<cacheVars, docVars, treeVars, fetchVars,
                 stageVars,
                 ctorVars,
                 genVars,
                 failVars,
                 infoVars,
                 metaVars,
                 specVars,
                 sqlVars,
                 orderVars,
                 declVars,
                 handVars,
                 dupVars,
                 equivVars,
                 mergeVars>>
    \/ FinishBatch /\ UNCHANGED <<cacheVars, docVars, treeVars, fetchVars,
                 stageVars,
                 ctorVars,
                 genVars,
                 failVars,
                 infoVars,
                 metaVars,
                 specVars,
                 sqlVars,
                 orderVars,
                 declVars,
                 handVars,
                 dupVars,
                 equivVars,
                 mergeVars>>

SpecBatch == BatchInit /\ [][BatchNext]_vars

TreeNext ==
    \/ ExpandNode /\ UNCHANGED <<cacheVars, docVars, batchVars, fetchVars,
                 stageVars,
                 ctorVars,
                 genVars,
                 failVars,
                 infoVars,
                 metaVars,
                 specVars,
                 sqlVars,
                 orderVars,
                 declVars,
                 handVars,
                 dupVars,
                 equivVars,
                 mergeVars>>
    \/ RemoveLibraryNode /\ UNCHANGED <<cacheVars, docVars, batchVars, fetchVars,
                 stageVars,
                 ctorVars,
                 genVars,
                 failVars,
                 infoVars,
                 metaVars,
                 specVars,
                 sqlVars,
                 orderVars,
                 declVars,
                 handVars,
                 dupVars,
                 equivVars,
                 mergeVars>>
    \/ RaiseTemplateError /\ UNCHANGED <<cacheVars, docVars, batchVars, fetchVars,
                 stageVars,
                 ctorVars,
                 genVars,
                 failVars,
                 infoVars,
                 metaVars,
                 specVars,
                 sqlVars,
                 orderVars,
                 declVars,
                 handVars,
                 dupVars,
                 equivVars,
                 mergeVars>>

SpecTree == TreeInit /\ [][TreeNext]_vars

FetchNext ==
    \/ FetchOne /\ UNCHANGED <<cacheVars, docVars, batchVars, treeVars,
                 stageVars,
                 ctorVars,
                 genVars,
                 failVars,
                 infoVars,
                 metaVars,
                 specVars,
                 sqlVars,
                 orderVars,
                 declVars,
                 handVars,
                 dupVars,
                 equivVars,
                 mergeVars>>
    \/ FetcherFails /\ UNCHANGED <<cacheVars, docVars, batchVars, treeVars,
                 stageVars,
                 ctorVars,
                 genVars,
                 failVars,
                 infoVars,
                 metaVars,
                 specVars,
                 sqlVars,
                 orderVars,
                 declVars,
                 handVars,
                 dupVars,
                 equivVars,
                 mergeVars>>
    \/ InvokeStrategy /\ UNCHANGED <<cacheVars, docVars, batchVars, treeVars,
                 stageVars,
                 ctorVars,
                 genVars,
                 failVars,
                 infoVars,
                 metaVars,
                 specVars,
                 sqlVars,
                 orderVars,
                 declVars,
                 handVars,
                 dupVars,
                 equivVars,
                 mergeVars>>

SpecFetch == FetchInit /\ [][FetchNext]_vars

StageInit ==
    CacheStart /\ DocIdle /\ BatchIdle /\ TreeIdle /\ FetchIdle
    /\ StageStart /\ CtorIdle /\ GenIdle /\ FailIdle /\ InfoIdle /\ MetaIdle
    /\ SpecIdle /\ SqlIdle /\ OrderIdle /\ DeclIdle /\ HandIdle /\ DupIdle
    /\ EquivIdle /\ MergeIdle

StageOthers == <<docVars, batchVars, treeVars, fetchVars,
    ctorVars,
    genVars,
    failVars,
    infoVars,
    metaVars,
    specVars,
    sqlVars,
    orderVars,
    declVars,
    handVars,
    dupVars,
    equivVars,
    mergeVars>>

StageNext ==
    \/ SourcelessFragment /\ UNCHANGED StageOthers
    \/ StartCompile /\ UNCHANGED StageOthers
    \/ RetrieveMetadata /\ UNCHANGED StageOthers
    \/ FetchData /\ UNCHANGED StageOthers
    \/ CheckCache /\ UNCHANGED StageOthers
    \/ GenerateContext /\ UNCHANGED StageOthers
    \/ ReuseContext /\ UNCHANGED StageOthers
    \/ ReturnFragment /\ UNCHANGED StageOthers

SpecStages == StageInit /\ [][StageNext]_vars

CtorInit ==
    CacheStart /\ DocIdle /\ BatchIdle /\ TreeIdle /\ FetchIdle /\ StageIdle
    /\ CtorStart /\ GenIdle /\ FailIdle /\ InfoIdle /\ MetaIdle /\ SpecIdle
    /\ SqlIdle /\ OrderIdle /\ DeclIdle /\ HandIdle /\ DupIdle /\ EquivIdle
    /\ MergeIdle

CtorOthers == <<cacheVars, docVars, batchVars, treeVars, fetchVars,
    stageVars,
    genVars,
    failVars,
    infoVars,
    metaVars,
    specVars,
    sqlVars,
    orderVars,
    declVars,
    handVars,
    dupVars,
    equivVars,
    mergeVars>>

CtorNext ==
    \/ MapFragment /\ UNCHANGED CtorOthers
    \/ FinishConstruction /\ UNCHANGED CtorOthers
    \/ CallGenerate /\ UNCHANGED CtorOthers

SpecCtor == CtorInit /\ [][CtorNext]_vars

GenInit ==
    CacheStart /\ DocIdle /\ BatchIdle /\ TreeIdle /\ FetchIdle /\ StageIdle
    /\ CtorIdle /\ GenStart /\ FailIdle /\ InfoIdle /\ MetaIdle /\ SpecIdle
    /\ SqlIdle /\ OrderIdle /\ DeclIdle /\ HandIdle /\ DupIdle /\ EquivIdle
    /\ MergeIdle

GenOthers == <<cacheVars, docVars, batchVars, treeVars, fetchVars,
    stageVars, ctorVars,
    failVars,
    infoVars,
    metaVars,
    specVars,
    sqlVars,
    orderVars,
    declVars,
    handVars,
    dupVars,
    equivVars,
    mergeVars>>

GenNext ==
    \/ EnterGenerate /\ UNCHANGED GenOthers
    \/ \E doc \in Docs : NextDocument(doc) /\ UNCHANGED GenOthers
    \/ \E doc \in Docs : PoolDocument(doc) /\ UNCHANGED GenOthers
    \/ \E doc \in Docs, node \in Nodes :
          NextFragment(doc, node) /\ UNCHANGED GenOthers
    \/ \E doc \in Docs, node \in Nodes :
          PoolFragment(doc, node) /\ UNCHANGED GenOthers
    \/ \E doc \in Docs, node \in Nodes :
          FragmentEnds(doc, node) /\ UNCHANGED GenOthers
    \/ \E doc \in Docs : DocumentEnds(doc) /\ UNCHANGED GenOthers
    \/ LeaveGenerate /\ UNCHANGED GenOthers

SpecGen == GenInit /\ [][GenNext]_vars

FailInit ==
    CacheStart /\ DocIdle /\ BatchIdle /\ TreeIdle /\ FetchIdle /\ StageIdle
    /\ CtorIdle /\ GenIdle /\ FailStart /\ InfoIdle /\ MetaIdle /\ SpecIdle
    /\ SqlIdle /\ OrderIdle /\ DeclIdle /\ HandIdle /\ DupIdle /\ EquivIdle
    /\ MergeIdle

FailOthers == <<cacheVars, docVars, batchVars, treeVars, fetchVars,
    stageVars, ctorVars, genVars,
    infoVars,
    metaVars,
    specVars,
    sqlVars,
    orderVars,
    declVars,
    handVars,
    dupVars,
    equivVars,
    mergeVars>>

FailNext ==
    \/ RunStrategy /\ UNCHANGED FailOthers
    \/ RaiseGeneratorException /\ UNCHANGED FailOthers

SpecFail == FailInit /\ [][FailNext]_vars

InfoInit ==
    CacheStart /\ DocIdle /\ BatchIdle /\ TreeIdle /\ FetchIdle /\ StageIdle
    /\ CtorIdle /\ GenIdle /\ FailIdle /\ InfoStart /\ MetaIdle /\ SpecIdle
    /\ SqlIdle /\ OrderIdle /\ DeclIdle /\ HandIdle /\ DupIdle /\ EquivIdle
    /\ MergeIdle

InfoOthers == <<cacheVars, docVars, batchVars, treeVars, fetchVars,
    stageVars, ctorVars, genVars, failVars,
    metaVars,
    specVars,
    sqlVars,
    orderVars,
    declVars,
    handVars,
    dupVars,
    equivVars,
    mergeVars>>

InfoNext ==
    \/ MergeContexts /\ UNCHANGED InfoOthers
    \/ BuildFullContext /\ UNCHANGED InfoOthers

SpecInfo == InfoInit /\ [][InfoNext]_vars

MetaInit ==
    CacheStart /\ DocIdle /\ BatchIdle /\ TreeIdle /\ FetchIdle /\ StageIdle
    /\ CtorIdle /\ GenIdle /\ FailIdle /\ InfoIdle /\ MetaStart /\ SpecIdle
    /\ SqlIdle /\ OrderIdle /\ DeclIdle /\ HandIdle /\ DupIdle /\ EquivIdle
    /\ MergeIdle

MetaOthers == <<cacheVars, docVars, batchVars, treeVars, fetchVars,
    stageVars, ctorVars, genVars, failVars, infoVars,
    specVars,
    sqlVars,
    orderVars,
    declVars,
    handVars,
    dupVars,
    equivVars,
    mergeVars>>

MetaNext ==
    \/ SetFragmentKeys /\ UNCHANGED MetaOthers
    \/ UpdateMetadata /\ UNCHANGED MetaOthers
    \/ FetchStage /\ UNCHANGED MetaOthers
    \/ FingerprintStage /\ UNCHANGED MetaOthers
    \/ WriteTmpFile /\ UNCHANGED MetaOthers
    \/ GenerateStage /\ UNCHANGED MetaOthers

SpecMeta == MetaInit /\ [][MetaNext]_vars

DocSpecInit ==
    CacheStart /\ DocIdle /\ BatchIdle /\ TreeIdle /\ FetchIdle /\ StageIdle
    /\ CtorIdle /\ GenIdle /\ FailIdle /\ InfoIdle /\ MetaIdle /\ SpecStart
    /\ SqlIdle /\ OrderIdle /\ DeclIdle /\ HandIdle /\ DupIdle /\ EquivIdle
    /\ MergeIdle

DocSpecOthers == <<cacheVars, docVars, batchVars, treeVars, fetchVars,
    stageVars, ctorVars, genVars, failVars, infoVars, metaVars,
    sqlVars,
    orderVars,
    declVars,
    handVars,
    dupVars,
    equivVars,
    mergeVars>>

DocSpecNext ==
    \/ CreateSpecification /\ UNCHANGED DocSpecOthers
    \/ CheckArguments /\ UNCHANGED DocSpecOthers
    \/ CloneRepository /\ UNCHANGED DocSpecOthers
    \/ LoadSpecification /\ UNCHANGED DocSpecOthers

SpecDocSpec == DocSpecInit /\ [][DocSpecNext]_vars

SqlInit ==
    CacheStart /\ DocIdle /\ BatchIdle /\ TreeIdle /\ FetchIdle /\ StageIdle
    /\ CtorIdle /\ GenIdle /\ FailIdle /\ InfoIdle /\ MetaIdle /\ SpecIdle
    /\ SqlStart /\ OrderIdle /\ DeclIdle /\ HandIdle /\ DupIdle /\ EquivIdle
    /\ MergeIdle

SqlOthers == <<cacheVars, docVars, batchVars, treeVars, fetchVars,
    stageVars, ctorVars, genVars, failVars, infoVars, metaVars, specVars,
    orderVars,
    declVars,
    handVars,
    dupVars,
    equivVars,
    mergeVars>>

SqlNext ==
    \/ UseRawQuery /\ UNCHANGED SqlOthers
    \/ _create_select_clause /\ UNCHANGED SqlOthers
    \/ _create_from_clause /\ UNCHANGED SqlOthers
    \/ ReturnQuery /\ UNCHANGED SqlOthers

SpecSql == SqlInit /\ [][SqlNext]_vars

OrderInit ==
    CacheStart /\ DocIdle /\ BatchIdle /\ TreeIdle /\ FetchIdle /\ StageIdle
    /\ CtorIdle /\ GenIdle /\ FailIdle /\ InfoIdle /\ MetaIdle /\ SpecIdle
    /\ SqlIdle /\ OrderStart /\ DeclIdle /\ HandIdle /\ DupIdle /\ EquivIdle
    /\ MergeIdle

OrderOthers == <<cacheVars, docVars, batchVars, treeVars, fetchVars,
    stageVars, ctorVars, genVars, failVars, infoVars, metaVars, specVars,
    sqlVars,
    declVars,
    handVars,
    dupVars,
    equivVars,
    mergeVars>>

OrderNext ==
    \E i \in 1..2 : BuildOrdered(i) /\ UNCHANGED OrderOthers

SpecOrder == OrderInit /\ [][OrderNext]_vars

DeclInit ==
    CacheStart /\ DocIdle /\ BatchIdle /\ TreeIdle /\ FetchIdle /\ StageIdle
    /\ CtorIdle /\ GenIdle /\ FailIdle /\ InfoIdle /\ MetaIdle /\ SpecIdle
    /\ SqlIdle /\ OrderIdle /\ DeclStart /\ HandIdle /\ DupIdle /\ EquivIdle
    /\ MergeIdle

DeclOthers == <<cacheVars, docVars, batchVars, treeVars, fetchVars,
    stageVars, ctorVars, genVars, failVars, infoVars, metaVars, specVars,
    sqlVars, orderVars,
    handVars,
    dupVars,
    equivVars,
    mergeVars>>

DeclNext ==
    \/ LookUpFetchers /\ UNCHANGED DeclOthers
    \/ InvokeFetcher /\ UNCHANGED DeclOthers
    \/ ReturnData /\ UNCHANGED DeclOthers

SpecDecl == DeclInit /\ [][DeclNext]_vars

HandInit ==
    CacheStart /\ DocIdle /\ BatchIdle /\ TreeIdle /\ FetchIdle /\ StageIdle
    /\ CtorIdle /\ GenIdle /\ FailIdle /\ InfoIdle /\ MetaIdle /\ SpecIdle
    /\ SqlIdle /\ OrderIdle /\ DeclIdle /\ HandStart /\ DupIdle /\ EquivIdle
    /\ MergeIdle

HandOthers == <<cacheVars, docVars, batchVars, treeVars, fetchVars,
    stageVars, ctorVars, genVars, failVars, infoVars, metaVars, specVars,
    sqlVars, orderVars, declVars,
    dupVars,
    equivVars,
    mergeVars>>

HandNext ==
    \E c \in Compilations :
        \/ Fingerprint(c) /\ UNCHANGED HandOthers
        \/ OpenSnapshot(c) /\ UNCHANGED HandOthers
        \/ WriteSnapshot(c) /\ UNCHANGED HandOthers
        \/ CallStrategy(c) /\ UNCHANGED HandOthers
        \/ SkipStrategy(c) /\ UNCHANGED HandOthers
        \/ StrategyReturns(c) /\ UNCHANGED HandOthers
        \/ StrategyRaises(c) /\ UNCHANGED HandOthers
        \/ StoreFails(c) /\ UNCHANGED HandOthers

SpecHand == HandInit /\ [][HandNext]_vars

DupInit ==
    CacheStart /\ DocIdle /\ BatchIdle /\ TreeIdle /\ FetchIdle /\ StageIdle
    /\ CtorIdle /\ GenIdle /\ FailIdle /\ InfoIdle /\ MetaIdle /\ SpecIdle
    /\ SqlIdle /\ OrderIdle /\ DeclIdle /\ HandIdle /\ DupStart /\ EquivIdle
    /\ MergeIdle

DupOthers == <<cacheVars, docVars, batchVars, treeVars, fetchVars,
    stageVars, ctorVars, genVars, failVars, infoVars, metaVars, specVars,
    sqlVars, orderVars, declVars, handVars,
    equivVars,
    mergeVars>>

DupNext ==
    \/ CheckDuplicate /\ UNCHANGED DupOthers
    \/ EndOfList /\ UNCHANGED DupOthers

SpecDup == DupInit /\ [][DupNext]_vars

EquivInit ==
    CacheStart /\ DocIdle /\ BatchIdle /\ TreeIdle /\ FetchIdle /\ StageIdle
    /\ CtorIdle /\ GenIdle /\ FailIdle /\ InfoIdle /\ MetaIdle /\ SpecIdle
    /\ SqlIdle /\ OrderIdle /\ DeclIdle /\ HandIdle /\ DupIdle
    /\ EquivStart /\ MergeIdle

EquivOthers == <<cacheVars, docVars, batchVars, treeVars, fetchVars,
    stageVars, ctorVars, genVars, failVars, infoVars, metaVars, specVars,
    sqlVars, orderVars, declVars, handVars, dupVars,
    mergeVars>>

EquivNext ==
    \E mode \in FragmentModes : GenerateDocument(mode) /\ UNCHANGED EquivOthers

SpecEquiv == EquivInit /\ [][EquivNext]_vars

MergeInit ==
    CacheStart /\ DocIdle /\ BatchIdle /\ TreeIdle /\ FetchIdle /\ StageIdle
    /\ CtorIdle /\ GenIdle /\ FailIdle /\ InfoIdle /\ MetaIdle /\ SpecIdle
    /\ SqlIdle /\ OrderIdle /\ DeclIdle /\ HandIdle /\ DupIdle
    /\ EquivIdle /\ MergeStart

MergeOthers == <<cacheVars, docVars, batchVars, treeVars, fetchVars,
    stageVars, ctorVars, genVars, failVars, infoVars, metaVars, specVars,
    sqlVars, orderVars, declVars, handVars, dupVars, equivVars>>

MergeNext == MergeResult /\ UNCHANGED MergeOthers

SpecMerge == MergeInit /\ [][MergeNext]_vars

-----------------------------------------------------------------------------
(* Claims about the cache (SpecCache) *)

\* The step is a call of setup_and_generate_context.
Compiled == runs' = runs + 1

\* The inputs of a call, as the caller supplies them
SameSource(r1, r2) == r1.code = r2.code
SameParam(r1, r2) == r1.doc_param = r2.doc_param
SameData(r1, r2) == r1.data = r2.data
SameMetadata(r1, r2) == r1.metadata = r2.metadata
SameConfig(r1, r2) == r1.metadata.config = r2.metadata.config

RunHash(r) == CurrentHash(r.code, r.doc_param, r.data, r.metadata)
RunKey(r) == FragmentKey(r.metadata)
Caching(r) == r.metadata.skip_unchanged_fragments
Succeeded(r) == r.outcome \in {"hit", "generated"}

\* C1: with caching on, a call returns the stored context without invoking
\* generate_context exactly when the stored record equals the current
\* fingerprint and the .ctx file exists and parses; in every other case
\* generate_context is invoked and the check raises nothing.
C1_LookupIsHitOrMiss ==
    [][ (Compiled /\ Caching(run')) =>
            LET k == RunKey(run')
            IN  IF /\ PreviousHash(hashFile[k]) = RunHash(run')
                   /\ Parseable(ctxFile[k])
                THEN /\ run'.outcome = "hit"
                     /\ ~run'.invoked
                     /\ run'.context = JsonLoad(ctxFile[k])
                ELSE /\ run'.invoked
                     /\ run'.outcome # "check_failed" ]_cacheVars

\* C2: whenever both records of a key exist, the .ctx file holds the context
\* computed from inputs whose fingerprint is the one in the .hash file, and
\* a hit returns a context computed from inputs with the current fingerprint.
C2_CacheCoherent ==
    /\ \A k \in FragmentKeys :
          (hashFile[k].state # "absent" /\ ctxFile[k].state # "absent") =>
              /\ ctxFile[k].state = "written"
              /\ LET o == ctxFile[k].text[1]
                 IN  CurrentHash(o[1], o[2], o[3], o[4]) = hashFile[k].text
    /\ run.outcome = "hit" =>
          /\ run.context.origin[1] = run.code
          /\ run.context.origin[2] = run.doc_param
          /\ run.context.origin[3] = run.data
          /\ run.context.origin[4] = run.metadata

\* C3: a compilation that follows a successful one with the same inputs,
\* caching on, is a hit without the strategy and returns the same context.
C3_Idempotent ==
    [][ ( /\ Compiled
          /\ Succeeded(run) /\ Caching(run)
          /\ SameSource(run, run') /\ SameParam(run, run')
          /\ SameData(run, run') /\ SameMetadata(run, run') ) =>
            /\ run'.outcome = "hit"
            /\ ~run'.invoked
            /\ run'.context = run.context ]_cacheVars

\* The components that differ between the inputs of two calls
ChangedInputs(r1, r2) ==
    {n \in {"code_hash", "docparam_hash", "data_hash", "metadata_hash"} :
        \/ n = "code_hash" /\ ~SameSource(r1, r2)
        \/ n = "docparam_hash" /\ ~SameParam(r1, r2)
        \/ n = "data_hash" /\ ~SameData(r1, r2)
        \/ n = "metadata_hash" /\ ~SameMetadata(r1, r2)}

\* C4: when exactly one of the four inputs changed since the previous
\* successful cached run, the run is a miss that reports exactly that
\* component.
C4_ExactInvalidation ==
    [][ ( /\ Compiled
          /\ Succeeded(run) /\ Caching(run) /\ Caching(run')
          /\ Cardinality(ChangedInputs(run, run')) = 1 ) =>
            /\ run'.outcome # "hit"
            /\ run'.invoked
            /\ run'.log = "differ"
            /\ run'.differ = ChangedInputs(run, run') ]_cacheVars

\* C5: a run with caching off always invokes the strategy, and a run with
\* caching on that follows a successful run with caching off and the same
\* inputs finds that run's record and reuses its artifact.
C5_ForcedRunLeavesCacheUsable ==
    [][ Compiled =>
            /\ ~Caching(run') => run'.invoked
            /\ ( /\ run.outcome = "generated" /\ ~Caching(run)
                 /\ Caching(run')
                 /\ SameSource(run, run') /\ SameParam(run, run')
                 /\ SameData(run, run') /\ SameConfig(run, run') ) =>
                    /\ run'.outcome = "hit"
                    /\ run'.context.origin =
                          <<run.code, run.doc_param, run.data, run.metadata>>
       ]_cacheVars

\* C6: the run after a run whose context generation failed, with the same
\* inputs, invokes the strategy again.
C6_FailedFragmentRecomputed ==
    [][ ( /\ Compiled
          /\ run.outcome = "strategy_failed"
          /\ SameSource(run, run') /\ SameParam(run, run')
          /\ SameData(run, run') /\ SameConfig(run, run') ) =>
            run'.invoked ]_cacheVars

-----------------------------------------------------------------------------
(* Claims about one document run (SpecDoc) *)

FragmentsDone == docPc \in {"collected", "raised", "returned"}
NodeFailed(node) == fragmentOutcome[node].exception.type = "Exception"
NodeSucceeded(node) == fragmentOutcome[node].exception = NoException
FailedNodes == {n \in Nodes : NodeFailed(n)}

\* C7: in a document run no node is compiled twice, and once the fragments
\* are done every node of the tree has been compiled exactly once and has
\* its entry in the results, at its place in pre-order; every node whose
\* compilation succeeded has its own result there, whatever failed elsewhere.
\* This holds in sequential and in worker-pool mode.
C7_EveryNodeCompiledOnce ==
    /\ \A n \in Nodes : compiles[n] <= 1
    /\ FragmentsDone =>
          /\ DOMAIN results = Nodes
          /\ \A n \in Nodes :
                /\ compiles[n] = 1
                /\ results[n].exception = fragmentOutcome[n].exception
                /\ NodeSucceeded(n) =>
                      results[n] = fragment_info(results[n].fragment,
                                      [result |-> n, exception |-> NoException])

\* A finished sequential run in which the second node failed and the nodes
\* before and after it produced their results.
C7_Witness ==
    /\ docPc = "collected" /\ n_frag_workers = 1
    /\ NodeFailed(2)
    /\ results[1].result = 1 /\ results[3].result = 3
    /\ results[4].result = 4

\* C8: when a document run ends because fragments failed, the exception is
\* one DocumentGenerationError whose fragment_errors holds exactly one entry
\* per failed node, with that node's message.
C8_OneEntryPerFailedNode ==
    (docPc = "raised" /\ ~renderStarted) =>
        /\ docError.type = "DocumentGenerationError"
        /\ Cardinality(DOMAIN docError.fragment_errors)
              = Cardinality(FailedNodes)
        /\ \A n \in FailedNodes :
              \E k \in DOMAIN docError.fragment_errors :
                 docError.fragment_errors[k] = n

\* C9: rendering (and with it postprocessing) has started only if every node
\* of the tree has been compiled, all results are in, and none failed.
C9_RenderOnlyAfterAllSucceeded ==
    renderStarted =>
        /\ DOMAIN results = Nodes
        /\ \A n \in Nodes : compiles[n] = 1 /\ NodeSucceeded(n)
        /\ \A n \in Nodes : task[n] \in {"unsubmitted", "done"}

\* Rendering started after a worker-pool run of the whole tree.
C9_Witness ==
    /\ renderStarted /\ n_frag_workers > 1
    /\ \A n \in Nodes : task[n] = "done"

-----------------------------------------------------------------------------
(* Claims about a batch (SpecBatch) *)

FailedDocs == {d \in Docs : docException[d].type
                               \in {"DocumentGenerationError", "Exception"}}

\* C10: when generate has ended, every document of the batch was attempted
\* once; it raised a DocumentGenerationError exactly if some document failed,
\* and then fragment_errors has exactly the suffixes of the failed documents
\* as keys; if no document failed it returned without error.
C10_BatchAggregatesFailures ==
    batchPc = "done" =>
        /\ \A d \in Docs : docAttempts[d] = 1
        /\ FailedDocs # {} =>
              /\ batchError.type = "DocumentGenerationError"
              /\ DOMAIN batchError.fragment_errors
                    = {DocSuffix(d) : d \in FailedDocs}
        /\ FailedDocs = {} => batchError = NoDocException

\* C11: two documents of the batch with different parameters never use the
\* same cache record: no record has been read or written by both.
C11_BatchIsolation ==
    \A d1, d2 \in Docs :
        BatchDocParams[d1] # BatchDocParams[d2] =>
            ~(\E r \in DocRecords : {d1, d2} \subseteq recordUsers[r])

-----------------------------------------------------------------------------
(* Claims about the records and the metadata of one document run (SpecDoc) *)

\* The nodes whose compilation has used, or is using, the cache.
UsingCache ==
    {n \in Nodes : /\ TemplateTree[n].name \in source_file_map
                   /\ (compiles[n] > 0 \/ task[n] = "running")}

\* C12: within one document run any two different nodes that are or were
\* compiled use different cache keys.
C12_KeysUniqueInRun ==
    \A n1, n2 \in UsingCache : n1 # n2 => NodeCacheKey(n1) # NodeCacheKey(n2)

-----------------------------------------------------------------------------
(* Claims about the merged context (SpecDoc) *)

\* The results as the tree and the fragments alone give them, in pre-order.
PreOrderResults ==
    [n \in Nodes |-> fragment_info(NodeKey(n), fragmentOutcome[n])]

\* C13: the merged context of a rendered document is the merge, in pre-order
\* of the tree, of the results of its fragments, in whatever order the
\* workers ended.
C13_MergeDeterministic ==
    renderStarted =>
        fragments_context = build_fragments_context(PreOrderResults)

\* A rendered worker-pool run in which the fifth node ended before the
\* fourth, both being merged at the same path and supplying the same key.
C13_Witness ==
    /\ renderStarted /\ n_frag_workers > 1
    /\ \E i, j \in DOMAIN finished :
          i < j /\ finished[i] = 5 /\ finished[j] = 4
    /\ fragments_context[<<"table", "value">>] = <<5>>

\* The nodes merged at the same path as node n that supply key k.
SuppliersAt(n, k) ==
    {m \in Nodes : /\ fragment_items(ResultPath(m))
                        = fragment_items(ResultPath(n))
                   /\ k \in DOMAIN ResultContext(m)}

\* C14: after the merge the mapping at the path of a node holds every key
\* that any fragment merged at that path supplies, each with the value of
\* the last fragment in pre-order that supplies it.
C14_ShallowMerge ==
    renderStarted =>
        \A n \in Nodes : \A k \in DOMAIN ResultContext(n) :
            LET p == Append(fragment_items(ResultPath(n)), k)
                last == CHOOSE m \in SuppliersAt(n, k) :
                           \A o \in SuppliersAt(n, k) : o <= m
            IN  /\ p \in DOMAIN fragments_context
                /\ fragments_context[p] = ResultContext(last)[k]

\* The two nodes merged at data.table left their own keys there, and the
\* key both supply has the value of the later one.
C14_Witness ==
    /\ renderStarted
    /\ {<<"table", "k4">>, <<"table", "k5">>} \subseteq DOMAIN fragments_context
    /\ fragments_context[<<"table", "k4">>] = <<4>>
    /\ fragments_context[<<"table", "value">>] = <<5>>

\* The base names of the nodes from the root to the node, the root left
\* out, and the same for the parent of the node.
RECURSIVE OwnPath(_)
OwnPath(n) ==
    IF TemplateTree[n].parent = 0 THEN <<>>
    ELSE Append(OwnPath(TemplateTree[n].parent), TemplateTree[n].name[1])

AncestorPath(n) ==
    IF TemplateTree[n].parent = 0 THEN <<>>
    ELSE OwnPath(TemplateTree[n].parent)

-----------------------------------------------------------------------------
(* Claims about the template tree (SpecTree) *)

TreeNames(order) == [i \in DOMAIN order |-> treeNodes[order[i]].name]

\* The place of a node in the pre-order traversal.
PlaceOf(n) ==
    CHOOSE i \in DOMAIN PreOrderIter(treeNodes) : PreOrderIter(treeNodes)[i] = n

InTree == {PreOrderIter(treeNodes)[i] : i \in DOMAIN PreOrderIter(treeNodes)}

\* The pre-order traversal has every parent before its children and the
\* children of a node in the order they were included.
PreOrderRespectsTree ==
    /\ PreOrderIter(treeNodes)[1] = 1
    /\ \A n \in InTree \ {1} :
          /\ treeNodes[n].parent \in InTree
          /\ PlaceOf(treeNodes[n].parent) < PlaceOf(n)
    /\ \A n, m \in InTree :
          (treeNodes[n].parent = treeNodes[m].parent /\ n < m)
              => PlaceOf(n) < PlaceOf(m)

\* C16 as stated: in the finished tree, rooted at the main template, the
\* children of every node are the templates its content includes, one node
\* per include statement and in their order.
C16_ChildrenAreIncludes ==
    treePc = "done" =>
        /\ treeNodes[1].name = "A"
        /\ \A n \in InTree :
              TreeNames(Children(treeNodes, n)) = templates[treeNodes[n].name]

\* C16: in the finished tree, rooted at the main template, the children of
\* every node are the templates its content includes that are in the
\* templates directory, one node per include statement and in their order
\* (included library templates are no nodes); pre-order has parents before
\* children and siblings in inclusion order; A -> {B, C}, C -> {D} gives
\* the pre-order A, B, C, D.
C16_ChildrenAreLocalIncludes ==
    treePc = "done" =>
        /\ treeNodes[1].name = "A"
        /\ \A n \in InTree :
              TreeNames(Children(treeNodes, n))
                = SelectSeq(templates[treeNodes[n].name],
                            LAMBDA t : t \in LocalTemplates)
        /\ PreOrderRespectsTree
        /\ templates = [A |-> <<"B", "C">>, B |-> <<>>,
                        C |-> <<"D">>, D |-> <<>>]
              => TreeNames(PreOrderIter(treeNodes)) = <<"A", "B", "C", "D">>

\* The finished tree of A -> {B, C}, C -> {D}.
C16_Witness ==
    /\ treePc = "done"
    /\ templates["A"] = <<"B", "C">> /\ templates["C"] = <<"D">>
    /\ TreeNames(PreOrderIter(treeNodes)) = <<"A", "B", "C", "D">>

\* The templates of the ancestors of a node.
RECURSIVE NamesAbove(_)
NamesAbove(n) ==
    IF treeNodes[n].parent = 0 THEN {}
    ELSE {treeNodes[treeNodes[n].parent].name}
           \cup NamesAbove(treeNodes[n].parent)

\* C17: a template that includes itself, directly or through others, is
\* never expanded: no node is made below a node of the same template.
C17_CycleNotExpanded ==
    \A n \in DOMAIN treeNodes : treeNodes[n].name \notin NamesAbove(n)

-----------------------------------------------------------------------------
(* Claims about the metadata of the fragments of a document (SpecDoc) *)

\* C18: the compilation of a fragment finds in its metadata nothing that the
\* compilation of another fragment of the document has written.
C18_FragmentMetadataIsolated ==
    \A n \in Nodes : \A written \in seenMetadata[n] : written.node = n

-----------------------------------------------------------------------------
(* Claims about the metadata of the documents of a batch (SpecBatch) *)

\* C19: a document of the batch finds in the metadata it is generated with
\* nothing that the generation of another document has written.
C19_DocumentMetadataIsolated ==
    \A d \in Docs : \A written \in docSeen[d] : written.doc = d

-----------------------------------------------------------------------------
(* Claims about the data fetching stage (SpecFetch) *)

\* Two fetchers of the fragment carry the same explicit name.
SameNameTwice ==
    \E i, j \in DOMAIN fetchers_info :
        i # j /\ fetchers_info[i] # "" /\ fetchers_info[i] = fetchers_info[j]

\* The ids of the fetchers are pairwise different.
IdsDiffer ==
    \A i, j \in DOMAIN fetchers_info :
        i # j => FetcherId(fetchers_info, i) # FetcherId(fetchers_info, j)

\* C20: a fragment that declares two fetchers with the same explicit name
\* never reaches its strategy, and the duplicate error is never raised for
\* fetchers whose ids are pairwise different.
C20_DuplicateFetcherRejected ==
    /\ SameNameTwice => fetchPc # "generating"
    /\ fetchError = "Fetcher id is duplicated" => ~IdsDiffer

-----------------------------------------------------------------------------
(* Claims about the stages of a compilation (SpecStages) *)

StageRank(stage) ==
    CASE stage = "retrieve_fragment_metadata" -> 1
      [] stage = "fetch_data" -> 2
      [] stage = "cache_check" -> 3
      [] stage = "generate_context" -> 4

\* C21: the stages of a compilation run in the order metadata retrieval,
\* data fetching, cache check, context generation, none of them twice; a
\* compilation ended by an error ran no stage after the failed one and wrote
\* no cache record; the data was fetched also when the check is a hit, and
\* the strategy is invoked only on a miss.
C21_StageOrder ==
    /\ \A i, j \in DOMAIN stageTrace :
          i < j => StageRank(stageTrace[i]) < StageRank(stageTrace[j])
    /\ stagePc = "raised" =>
          /\ stageTrace[Len(stageTrace)] = stageError.stage
          /\ stageWrites \cap {".hash", ".ctx"} = {}
    /\ stagePc = "reuse" => "fetch_data" \in {stageTrace[i] : i \in DOMAIN stageTrace}
    /\ "generate_context" \in {stageTrace[i] : i \in DOMAIN stageTrace} =>
          stageCheck.context = NoContext

\* The compilation returned a context reloaded from the .ctx file.
ReturnedOnHit ==
    stagePc = "returned" /\ stageCheck.context # NoContext

\* C26: what _generate_fragment returns is a mapping: a context that is no
\* mapping, generated or reloaded, comes back under the key 'data', and a
\* node without source file gets the empty mapping, no stage having run and
\* no file having been written.
C26_ResultIsMapping ==
    stagePc = "returned" =>
        /\ stageResult.kind \in {"mapping", "wrapped", "empty"}
        /\ stageIn # NoStageInputs =>
              stageResult.kind = IF KindOf(stageResult.context) = "list"
                                 THEN "wrapped" ELSE "mapping"
        /\ stageIn = NoStageInputs =>
              /\ stageResult = FragmentResult("empty", NoContext)
              /\ stageTrace = <<>> /\ stageWrites = {}

\* A context that is no mapping has been reloaded on a hit and returned.
C26_Witness ==
    /\ ReturnedOnHit
    /\ KindOf(stageResult.context) = "list"
    /\ stageResult.kind = "wrapped"

-----------------------------------------------------------------------------
(* Claims about the construction of a DocumentCompiler (SpecCtor) *)

\* The source files of a template base name: the files of that name with
\* one extension, a source extension.
SourceFilesOf(base) ==
    {f \in srcFiles : Len(f) = 2 /\ f[1] = base /\ f[2] \in SourceExtensions}

\* Some template of the tree has more than one source file.
AmbiguousSource ==
    \E n \in Nodes :
        Cardinality(SourceFilesOf(Splitext(TemplateTree[n].name))) > 1

-----------------------------------------------------------------------------
(* Claims about templates that cannot be found (SpecTree) *)

\* The template the construction stopped at exists nowhere.
StoppedAtMissingTemplate ==
    /\ treePc = "error"
    /\ treeNodes[stack[Len(stack)]].name
          \notin LocalTemplates \cup LibraryTemplates

\* C23: a template that is neither in the templates directory nor in the
\* library ends the construction of the tree with the template-not-found
\* error (FileNotFoundError), with and without a configured library path.
C23_MissingTemplateError ==
    StoppedAtMissingTemplate => treeError = "FileNotFoundError"

-----------------------------------------------------------------------------
(* Claims about debug mode (SpecGen) *)

\* <<d1, n1>> comes before <<d2, n2>>: an earlier document, or an earlier
\* node in pre-order of the same document.
ComesBefore(a, b) == a[1] < b[1] \/ (a[1] = b[1] /\ a[2] < b[2])

\* C24: in debug mode no executor is created and a fragment is compiled
\* only when every fragment before it, in input order of the documents and
\* pre-order of the nodes, has ended, whatever worker counts were asked for.
C24_DebugModeSequential ==
    genArgs.debug_mode =>
        /\ genPools = {}
        /\ \A a, b \in GenItems :
              (genFrag[b] # "pending" /\ ComesBefore(a, b))
                  => genFrag[a] = "done"
        /\ \A d \in Docs :
              genDoc[d] # "pending" =>
                  \A e \in Docs : e < d => genDoc[e] = "done"

\* A debug run asked for with more than one worker of each kind has ended.
C24_Witness ==
    /\ genArgs.debug_mode
    /\ genArgs.n_doc_workers > 1 /\ genArgs.n_frag_workers > 1
    /\ genPc = "ended"

-----------------------------------------------------------------------------
(* Claims about a failing strategy (SpecFail) *)

\* C25: an exception of the strategy reaches the caller as a
\* ContextGenerationError that names the fragment, and a snapshot of the
\* call has been written exactly if generate runs in debug mode.
C25_StrategyFailureWrapped ==
    failPc = "raised" =>
        /\ failError.type = "ContextGenerationError"
        /\ failError.location = failIn.fragment_name
        /\ (Snapshot(failIn) \in errorFiles) <=> failIn.debug_mode

-----------------------------------------------------------------------------
(* Claims about template_context_info (SpecInfo) *)

\* C27: template_context_info has one entry per node of the tree, in
\* pre-order, and the nesting key of every entry is the key path at which
\* the merge put the context of that node, directories in names included.
C27_InfoMatchesMerge ==
    infoPc = "built" =>
        /\ Len(template_context_info) = Len(infoTree)
        /\ \A i \in DOMAIN template_context_info :
              LET n == PreOrderIter(infoTree)[i]
              IN  /\ template_context_info[i].name = infoTree[n].name
                  /\ template_context_info[i].key = mergedAt[n]

-----------------------------------------------------------------------------
(* Claims about the metadata of a fragment (SpecMeta) *)

\* The keys compile and the context generation put in themselves: they
\* belong to the fragment under compilation, not to the document.
CompileKeys == {"fragment_path", "fragment_name", "cache_file"}

-----------------------------------------------------------------------------
(* Claims about DocumentSpecification.__init__ (SpecDocSpec) *)

\* C29: a DocumentSpecification made with neither dir_path nor repo_url and
\* without create is never constructed and never touches the disk, and
\* what ends the call is a ValueError.
C29_NoArgumentsValueError ==
    (/\ specArgs.dir_path = "None"
     /\ specArgs.repo_url = "None"
     /\ ~specArgs.create) =>
        /\ diskOps = {}
        /\ specPc \in {"called", "arguments", "raised"}
        /\ specPc = "raised" => specError = "ValueError"

\* The call without arguments has ended.
C29_Witness ==
    /\ specArgs.dir_path = "None" /\ specArgs.repo_url = "None"
    /\ ~specArgs.create
    /\ specPc = "raised" /\ specError = "ValueError"

-----------------------------------------------------------------------------
(* Claims about SQLQueryBuilder.build (SpecSql) *)

\* One word, or two words separated by a dot
IsIdentifier(name) ==
    \/ Len(name) > 0 /\ \A i \in 1..Len(name) : name[i] = "w"
    \/ \E i \in 2..(Len(name) - 1) :
          /\ name[i] = "."
          /\ \A j \in (1..Len(name)) \ {i} : name[j] = "w"

\* The specification lacks 'table' or 'fields', or names a table or a
\* field that is not an identifier.
WrongSpecification(info) ==
    \/ info.table.kind = "none"
    \/ info.fields.kind = "none"
    \/ info.table.kind \in {"str", "dict"} /\ ~IsIdentifier(info.table.items[1])
    \/ \E k \in 1..Len(info.fields.items) :
          ~IsIdentifier(info.fields.items[k])

-----------------------------------------------------------------------------
(* Claims about the order of the lists of a query (SpecOrder) *)

IsSortedByColumn(list) ==
    \A i, j \in 1..Len(list) : i < j => list[i][1] < list[j][1]

\* C31: two specifications that differ only in the order of their
\* 'fields' and 'sort' mappings build the same SELECT list and the same
\* ORDER BY list, and both lists are sorted.
C31_OrderIndependent ==
    orderPc = {1, 2} =>
        /\ orderOut[1] = orderOut[2]
        /\ IsSortedByColumn(orderOut[1].select)
        /\ IsSortedByColumn(orderOut[1].order_by)

-----------------------------------------------------------------------------
(* Claims about the declaration of the fetchers (SpecDecl) *)

\* C32: when the metadata has nothing under the key asked for, no fetcher
\* is invoked; the data fetching stage never gets a mapping back, and the
\* other stages end by getting an empty mapping back.
C32_MissingDeclaration ==
    declMeta.keys[fetcher_key(declStage)] = "absent" =>
        /\ declInvoked = 0
        /\ declStage = "fetch_data" =>
              /\ declPc # "returned"
              /\ declPc = "raised" => declError = "NotImplementedError"
        /\ declStage # "fetch_data" =>
              /\ declPc # "raised"
              /\ declPc = "returned" => declData = 0

-----------------------------------------------------------------------------
(* Claims about the snapshot handed to the strategy (SpecHand) *)

\* C33: while the strategy of a fragment runs, the snapshot file of the
\* fragment holds the parameter, data and metadata of this compilation
\* and metadata['cache_file'] names that file.
C33_SnapshotDuringStrategy ==
    \A c \in Compilations :
        handPc[c] = "generating" =>
            /\ handFile[handIn[c].name] = SnapshotOf(handIn[c])
            /\ handMeta[c] = handIn[c].name

\* C36: when setup_and_generate_context has ended, by a reused context, a
\* generated one, or a failure of the strategy or of the write of the
\* context, the metadata has no 'cache_file' entry, as before the call.
C36_CacheFileRemoved ==
    \A c \in Compilations :
        handPc[c] \in {"done", "reused", "failed", "unstored"} =>
            handMeta[c] = "none"

-----------------------------------------------------------------------------
(* Claims about the cleaning of the document parameter list (SpecDup) *)

\* C34: after _check_and_clean_duplicate_variables the list holds every
\* distinct parameter of the input exactly once.
C34_EachParameterOnce ==
    dupPc = "done" =>
        \A x \in DupParams :
            count(dupList, x) = IF count(dupInput, x) > 0 THEN 1 ELSE 0

-----------------------------------------------------------------------------
(* Claims about the two modes of fragment generation (SpecEquiv) *)

\* C35: for the same tree and the same outcomes of the fragments, the
\* sequential run and the pool run give the same merged context, compile
\* every fragment from the same metadata (and so leave the same cache
\* records), and report the same set of failed-fragment keys.
C35_SequentialEqualsPool ==
    equivDone = FragmentModes =>
        /\ equivRun["sequential"].context = equivRun["pool"].context
        /\ equivRun["sequential"].seen = equivRun["pool"].seen
        /\ equivRun["sequential"].error.type = equivRun["pool"].error.type
        /\ DOMAIN equivRun["sequential"].error.fragment_errors
              = DOMAIN equivRun["pool"].error.fragment_errors


-----------------------------------------------------------------------------
(* Claims about the merge over any kind of value (SpecMerge) *)

\* C37: _build_fragments_context never raises, whatever the fragments
\* return, also when a fragment has a value that is no mapping under the
\* name of the fragment nested below it.
C37_MergeNeverFails == mergeError = "none"

-----------------------------------------------------------------------------
(* Claims about templates of the library (SpecTree) *)

IsLibraryNode(n) == treeNodes[n].name \in LibraryTemplates

OnStack(n) == \E i \in DOMAIN stack : stack[i] = n

\* The includes of a node's template that are no library templates, in
\* their order
LocalIncludes(n) ==
    SelectSeq(included_templates(templates[treeNodes[n].name]),
              LAMBDA t : t \notin LibraryTemplates)

\* C38: with the library path set, a template that is only in the library
\* does not stop the construction; once read from the stack its node is
\* out of the tree, nothing is ever made below it, the finished tree does
\* not visit it, and the other children of its parent keep their order.
C38_LibraryTemplateLeftOut ==
    libraryPathSet =>
        /\ \A n \in DOMAIN treeNodes :
              IsLibraryNode(n) =>
                  /\ ~OnStack(n) => ~treeNodes[n].attached
                  /\ \A c \in DOMAIN treeNodes : treeNodes[c].parent # n
                  /\ treePc = "done" =>
                        \A i \in DOMAIN PreOrderIter(treeNodes) :
                            PreOrderIter(treeNodes)[i] # n
        /\ treePc = "error" => ~IsLibraryNode(stack[Len(stack)])
        /\ treePc = "done" =>
              \A n \in DOMAIN treeNodes :
                  treeNodes[n].name \in LocalTemplates =>
                      [i \in DOMAIN Children(treeNodes, n) |->
                          treeNodes[Children(treeNodes, n)[i]].name]
                        = LocalIncludes(n)

=============================================================================
